---------------------------- MODULE Spec2Model ----------------------------
(***************************************************************************)
(* A model of the wallet-balance enrichment of fast-rpc-analytics:         *)
(* the spam classifier, the Ethereum and Hyperliquid balance fetchers,     *)
(* the HYPE price cache and the multi-chain merger                         *)
(* (src/fetch_wallet_balances.py, src/config.py).                          *)
(*                                                                         *)
(* Python strings are sequences of one-character strings, so lower() and   *)
(* the substring test are computed.  A JSON value is a record              *)
(* [t, s, n]: t is "absent" (the key is missing from the dict), "null",    *)
(* "str" (s holds the characters) or "num" (n holds the number).  The      *)
(* result of an expression that can raise is [exc, val].                   *)
(***************************************************************************)
EXTENDS Integers, Sequences, FiniteSets, TLC

VARIABLES
    balance_entry,      \* is_spam_token: its argument
    spam_verdict,       \* is_spam_token: what the call did
    eth_response,       \* get_wallet_balance: what requests.get produced
    eth_result,         \* get_wallet_balance: the dict it returned
    hype_price,         \* get_hl_wallet_balance: the hype_price argument
    rpc_native,         \* what the eth_getBalance POST produced
    rpc_tokens,         \* what the alchemy_getTokenBalances POST produced
    hl_result,          \* get_hl_wallet_balance: the dict it returned
    price_response,     \* what the CoinGecko GET produced (when one was issued)
    hype_price_cache,   \* _hype_price_cache
    now,                \* time.time()
    requests,           \* the network requests issued by the current call, in order
    pc,                 \* get_wallet_balance_multi_chain: position of the caller
    address,            \* get_wallet_balance_multi_chain: its address argument
    merged,             \* get_wallet_balance_multi_chain: the dict it returned
    price_call,         \* get_hype_price: when it was last called and the fetches known then
    scanner,            \* the wallet scan running: fetch_all_wallet_balances or refresh_data
    sources,            \* whether the balance sources can be reached during the scan
    wallets,            \* the scan's list of unique wallets
    future_to_wallet,   \* the futures submitted to the pool, each with its wallet
    num_threads,        \* ThreadPoolExecutor: the worker threads started
    yield_first,        \* as_completed: the futures found finished when it was called
    unyielded,          \* the finished futures as_completed has not yielded, in finishing order
    results,            \* the scan's results list
    summary,            \* the summary the scan built
    df,                 \* calculate_metrics: its df argument, a list of rows
    metrics,            \* calculate_metrics: the frame it returned
    max_users,          \* get_entity_users: its max_users argument, 0 for a call without a limit
    all_users,          \* get_entity_users: all_users, as the runs of records the pages added
    offset,             \* get_entity_users: offset
    page_requests,      \* get_entity_users: the params of the page requests issued, in order
    pages,              \* get_entity_users: what each page request produced, in order
    callers,            \* get_hype_price in the worker threads: each call's position and locals
    written_by          \* _hype_price_cache: the call that wrote each entry last (a record kept beside)

vars == <<balance_entry, spam_verdict, eth_response, eth_result, hype_price,
          rpc_native, rpc_tokens, hl_result, price_response, hype_price_cache,
          now, requests, pc, address, merged, price_call, scanner, sources,
          wallets, future_to_wallet, num_threads, yield_first,
          unyielded, results, summary, df, metrics, max_users, all_users,
          offset, page_requests, pages, callers, written_by>>

---------------------------------------------------------------------------
(* JSON values and Python results *)

Absent == [t |-> "absent", s |-> <<>>, n |-> 0]
Null == [t |-> "null", s |-> <<>>, n |-> 0]
Str(chars) == [t |-> "str", s |-> chars, n |-> 0]
Num(k) == [t |-> "num", s |-> <<>>, n |-> k]
Object == [t |-> "object", s |-> <<>>, n |-> 0]

\* dict.get(key, default): the default stands in for a missing key only
Get(value, default) == IF value.t = "absent" THEN default ELSE value

\* Python truthiness of a JSON value: None, 0 and '' are falsy
Truthy(value) ==
    CASE value.t = "num" -> value.n # 0
      [] value.t = "str" -> value.s # <<>>
      [] OTHER -> FALSE

\* x or 0
OrZero(value) == IF Truthy(value) THEN value ELSE Num(0)

\* what a variable holds when the call that sets it has not returned a value
None == [none |-> TRUE]

Ok(v) == [exc |-> FALSE, val |-> v]
Raised == [exc |-> TRUE, val |-> Null]

---------------------------------------------------------------------------
(* str.lower() and the `in` test on strings *)

UpperCase == <<"A","B","C","D","E","F","G","H","I","J","K","L","M",
               "N","O","P","Q","R","S","T","U","V","W","X","Y","Z">>
LowerCase == <<"a","b","c","d","e","f","g","h","i","j","k","l","m",
               "n","o","p","q","r","s","t","u","v","w","x","y","z">>

\* the lower-case letter of each upper-case letter
ToLower ==
    [c \in {UpperCase[i] : i \in DOMAIN UpperCase} |->
        LowerCase[CHOOSE i \in DOMAIN UpperCase : UpperCase[i] = c]]

LowerChar(c) == IF c \in DOMAIN ToLower THEN ToLower[c] ELSE c

lower(chars) == [i \in 1..Len(chars) |-> LowerChar(chars[i])]

\* pattern in text
Contains(pattern, text) ==
    \E i \in 0..(Len(text) - Len(pattern)) :
        SubSeq(text, i + 1, i + Len(pattern)) = pattern

\* the value taken as it is, lower() forgotten
StrAsIs(value) == IF value.t = "str" THEN Ok(value.s) ELSE Raised

\* value.lower() on what dict.get returned: only a str has the method
StrLower(value) == IF value.t = "str" THEN Ok(lower(value.s)) ELSE Raised

---------------------------------------------------------------------------
(* float() of a JSON value *)

Digits == {"0","1","2","3","4","5","6","7","8","9"}
DigitSeq == <<"0","1","2","3","4","5","6","7","8","9">>

IsDigits(chars) == Len(chars) > 0 /\ \A i \in 1..Len(chars) : chars[i] \in Digits

DigitValue(c) == (CHOOSE i \in DOMAIN DigitSeq : DigitSeq[i] = c) - 1

RECURSIVE DecValue(_)
DecValue(chars) ==
    IF chars = <<>> THEN 0
    ELSE 10 * DecValue(SubSeq(chars, 1, Len(chars) - 1)) + DigitValue(chars[Len(chars)])

RECURSIVE StripZeros(_)
StripZeros(chars) ==
    IF Len(chars) > 1 /\ chars[1] = "0" THEN StripZeros(Tail(chars)) ELSE chars

\* the digits of 1e15
Quadrillion == <<"1","0","0","0","0","0","0","0","0","0","0","0","0","0","0","0">>

\* float(value) raises TypeError on None and ValueError on a string that is no number
FloatRaises(value) ==
    \/ value.t = "null"
    \/ value.t = "str" /\ ~IsDigits(value.s)

\* float(value) > 1e15; the numbers of the model are below 1e15, a digit string
\* is compared by its length
FloatGt1e15(value) ==
    /\ value.t = "str"
    /\ IsDigits(value.s)
    /\ LET d == StripZeros(value.s)
       IN  \/ Len(d) > Len(Quadrillion)
           \/ Len(d) = Len(Quadrillion) /\ d # Quadrillion

\* float(value) of a number or a short digit string
FloatValue(value) == IF value.t = "num" THEN value.n ELSE DecValue(value.s)

---------------------------------------------------------------------------
(* is_spam_token *)

legitimate_tokens == {
    <<"e","t","h">>, <<"w","e","t","h">>, <<"u","s","d","t">>, <<"u","s","d","c">>,
    <<"d","a","i">>, <<"w","b","t","c">>, <<"l","i","n","k">>, <<"u","n","i">>,
    <<"a","a","v","e">>, <<"m","k","r">>, <<"s","n","x">>, <<"c","o","m","p">>, <<"c","r","v">>,
    <<"b","a","l">>, <<"y","f","i">>, <<"s","u","s","h","i">>, <<"m","a","t","i","c">>,
    <<"f","t","m">>, <<"a","v","a","x">>, <<"b","n","b">>, <<"s","o","l">>, <<"a","d","a">>,
    <<"d","o","t">>, <<"a","t","o","m">>, <<"n","e","a","r">>, <<"a","l","g","o">>,
    <<"x","l","m">>, <<"s","t","e","t","h">>, <<"r","e","t","h">>, <<"c","b","e","t","h">>,
    <<"f","r","a","x">>, <<"l","u","s","d">>, <<"g","u","s","d">>, <<"t","u","s","d">>,
    <<"b","u","s","d">>, <<"e","z","e","t","h">>, <<"p","a","x","g">>, <<"b","l","u","r">>,
    <<"a","p","e">>, <<"p","e","p","e">>, <<"s","h","i","b">> }

spam_patterns == <<
    <<"v","i","s","i","t">>, <<"c","l","a","i","m">>, <<"h","t","t","p">>, <<".","c","o","m">>,
    <<".","n","e","t">>, <<".","o","r","g">>, <<".","i","o">>, <<"a","i","r","d","r","o","p">>,
    <<"r","e","w","a","r","d">>, <<"b","o","n","u","s">>, <<"f","r","e","e">>,
    <<"g","i","f","t">>, <<"v","o","u","c","h","e","r">>, <<"a","c","c","e","s","s">>,
    <<"e","t","h","g">>, <<"a","i","c","c">>, <<"z","e","p","e">> >>

\* for pattern in spam_patterns: if pattern in symbol: return True   (the name is not looked at)
MatchesSpamPatternSymbolOnly(symbol, name) ==
    \E i \in DOMAIN spam_patterns : Contains(spam_patterns[i], symbol)

\* for pattern in spam_patterns: if pattern in symbol or pattern in name: return True
MatchesSpamPattern(symbol, name) ==
    \E i \in DOMAIN spam_patterns :
        Contains(spam_patterns[i], symbol) \/ Contains(spam_patterns[i], name)

\* if symbol.lower() in ['ethg', 'aicc', 'zepe']: return True
IsKnownSpamSymbol(symbol) ==
    lower(symbol) \in { <<"e","t","h","g">>, <<"a","i","c","c">>, <<"z","e","p","e">> }

\* the threshold of the comment above the rule ($100,000), not of the rule
HighValueLimitOfComment == 10000 * 10

\* if value_usd > 10000 and symbol not in legitimate_tokens
HighValueLimit == 10000

\* if amount > 1e15: return True        (what the comment calls suspicious)
LargeAmountBranchEnforced(amount, rest) ==
    IF FloatGt1e15(amount) THEN Ok(TRUE) ELSE rest

\* if amount > 1e15: ... pass            (the branch falls through to the next rule)
LargeAmountBranch(amount, rest) ==
    IF FloatGt1e15(amount) THEN rest ELSE rest

\* if value_usd > 100000 and len(symbol) < 5 and symbol not in legitimate_tokens: pass
SuspiciousSymbolBranch(symbol, value_usd, rest) ==
    IF FloatValue(value_usd) > 100000 /\ Len(symbol) < 5 /\ symbol \notin legitimate_tokens
    THEN rest ELSE rest

is_spam_token(entry) ==
    LET symbol == StrLower(Get(entry.symbol, Str(<<>>)))
        name == StrLower(Get(entry.name, Str(<<>>)))
        amount == Get(entry.amount, Num(0))
        value_usd == OrZero(Get(entry.value_usd, Num(0)))
    IN  IF symbol.exc \/ name.exc \/ FloatRaises(amount) \/ FloatRaises(value_usd)
        THEN Raised
        ELSE IF symbol.val \in legitimate_tokens THEN Ok(FALSE)
        ELSE IF MatchesSpamPattern(symbol.val, name.val) THEN Ok(TRUE)
        ELSE IF IsKnownSpamSymbol(symbol.val) THEN Ok(TRUE)
        ELSE LargeAmountBranch(amount,
                 IF FloatValue(value_usd) > HighValueLimit
                    /\ symbol.val \notin legitimate_tokens
                 THEN Ok(TRUE)
                 ELSE SuspiciousSymbolBranch(symbol.val, value_usd, Ok(FALSE)))

---------------------------------------------------------------------------
(* The token balance records the classifier is applied to *)

SymbolValues == {
    Absent, Null, Str(<<>>),
    Str(<<"u","s","d","c">>), Str(<<"U","S","D","C">>), Str(<<"P","e","p","e">>),
    Str(<<"E","T","H","G">>), Str(<<"F","O","O">>), Str(<<"C","l","a","i","m">>),
    Str(<<"u","s","d","c","x">>) }

NameValues == {
    Absent, Null,
    Str(<<"U","S","D"," ","C","o","i","n">>),
    Str(<<"V","i","s","i","t"," ","x",".","C","O","M">>),
    Str(<<"F","r","e","e"," ","G","i","f","t">>),
    Str(<<"T","o","k","e","n">>) }

AmountValues == {
    Absent, Null, Num(5),
    Str(<<"2","0","0","0","0","0","0","0","0","0","0","0","0","0","0">>),
    Str(<<"1","0","0","0","0","0","0","0","0","0","0","0","0","0","0","0">>),
    Str(<<"2","0","0","0","0","0","0","0","0","0","0","0","0","0","0","0">>),
    Str(<<"a","b","c">>) }

ValueUsdValues == {
    Absent, Null, Num(0), Num(50), Num(-3), Num(10000), Num(10001), Num(50000),
    Num(496000), Str(<<"1","2">>), Str(<<"a","b","c">>) }

TokenBalances ==
    [symbol : SymbolValues, name : NameValues, amount : AmountValues,
     value_usd : ValueUsdValues]

NoEntry == [symbol |-> Absent, name |-> Absent, amount |-> Absent, value_usd |-> Absent]

Pending == [state |-> "pending", value |-> FALSE]
Returned(v) == [state |-> "returned", value |-> v]
RaisedException == [state |-> "raised", value |-> FALSE]

Outcome(r) == IF r.exc THEN RaisedException ELSE Returned(r.val)

---------------------------------------------------------------------------
(* Amounts of money.  The Ethereum source reports value_usd in dollars; the  *)
(* Hyperliquid balances are integers of 1e-18 token, and int(x, 16) / 1e18   *)
(* times a price is a number of 1e-18 dollars.  A sum of both is kept as the *)
(* pair [usd, atto], standing for usd + atto / 1e18 dollars.                 *)

Money(usd, atto) == [usd |-> usd, atto |-> atto]
Zero == Money(0, 0)
Plus(a, b) == Money(a.usd + b.usd, a.atto + b.atto)

\* dict.get(key, default) on a dict the program built
DictGet(dict, key, default) == IF key \in DOMAIN dict THEN dict[key] ELSE default

\* try: <body> except Exception: return <handler>
TryExceptMissing(body, handler) == body

TryExcept(body, handler) == IF body.exc THEN Ok(handler) ELSE body

---------------------------------------------------------------------------
(* get_wallet_balance *)

Addresses == {"0xA11CE", "0xB0B"}

\* [b for b in balances if is_spam_token(b)]             (the test inverted)
RECURSIVE SpamBalances(_)
SpamBalances(balances) ==
    IF balances = <<>> THEN Ok(<<>>)
    ELSE LET verdict == is_spam_token(Head(balances))
             rest == SpamBalances(Tail(balances))
         IN  IF verdict.exc \/ rest.exc THEN Raised
             ELSE IF verdict.val THEN Ok(<<Head(balances)>> \o rest.val)
             ELSE rest

\* [b for b in balances if not is_spam_token(b)]
RECURSIVE LegitimateBalances(_)
LegitimateBalances(balances) ==
    IF balances = <<>> THEN Ok(<<>>)
    ELSE LET verdict == is_spam_token(Head(balances))
             rest == LegitimateBalances(Tail(balances))
         IN  IF verdict.exc \/ rest.exc THEN Raised
             ELSE IF ~verdict.val THEN Ok(<<Head(balances)>> \o rest.val)
             ELSE rest

\* sum(float(b.get('value_usd', 0) or 0) for b in legitimate_balances)
RECURSIVE SumValueUsd(_)
SumValueUsd(balances) ==
    IF balances = <<>> THEN Ok(0)
    ELSE LET value_usd == OrZero(Get(Head(balances).value_usd, Num(0)))
             rest == SumValueUsd(Tail(balances))
         IN  IF FloatRaises(value_usd) \/ rest.exc THEN Raised
             ELSE Ok(FloatValue(value_usd) + rest.val)

EthFailure(addr) ==
    [address |-> addr, balance_usd |-> Zero, chain |-> "ethereum", success |-> FALSE]

\* the body of the try block, after requests.get returned `response`
EthTryBody(addr, response) ==
    IF response.outcome = "exception" THEN Raised
    ELSE IF response.status_code = 200
    THEN IF response.json # "object" THEN Raised      \* response.json() or data.get raises
         ELSE IF response.balances.t = "null" THEN Raised    \* iterating None
         ELSE LET balances == IF response.balances.t = "absent" THEN <<>>
                              ELSE response.balances.items
                  legitimate_balances == LegitimateBalances(balances)
                  total_usd == SumValueUsd(legitimate_balances.val)
              IN  IF legitimate_balances.exc THEN Raised
                  ELSE IF total_usd.exc THEN Raised
                  ELSE Ok([address |-> addr,
                           balance_usd |-> Money(total_usd.val, 0),
                           token_count |-> Len(legitimate_balances.val),
                           chain |-> "ethereum",
                           success |-> TRUE])
    ELSE Ok(EthFailure(addr))

get_wallet_balance(addr, response) ==
    TryExcept(EthTryBody(addr, response), EthFailure(addr))

---------------------------------------------------------------------------
(* What the account-balances endpoint can answer *)

MaxHoldings == 2

Entry(symbol, name, amount, value_usd) ==
    [symbol |-> symbol, name |-> name, amount |-> amount, value_usd |-> value_usd]

Foo == Str(<<"F","O","O">>)
TokenName == Str(<<"T","o","k","e","n">>)

Holdings == {
    Entry(Str(<<"U","S","D","C">>), Str(<<"U","S","D"," ","C","o","i","n">>), Num(5), Num(50)),
    Entry(Str(<<"P","e","p","e">>), Str(<<"F","r","e","e"," ","G","i","f","t">>),
          Str(<<"2","0","0","0","0","0","0","0","0","0","0","0","0","0","0","0">>), Num(496000)),
    Entry(Foo, TokenName, Num(5), Num(10000)),
    Entry(Foo, TokenName, Num(5), Num(10001)),
    Entry(Foo, TokenName, Num(5), Null),
    Entry(Foo, TokenName, Num(5), Num(-3)),
    Entry(Foo, Str(<<"V","i","s","i","t"," ","x",".","C","O","M">>), Num(5), Num(50)),
    Entry(Str(<<"E","T","H","G">>), Absent,
          Str(<<"2","0","0","0","0","0","0","0","0","0","0","0","0","0","0">>), Num(496000)),
    Entry(Null, TokenName, Num(5), Num(50)),
    Entry(Foo, TokenName, Null, Num(50)) }

HoldingLists == UNION { [1..k -> Holdings] : k \in 0..MaxHoldings }

NoBalances == [t |-> "absent", items |-> <<>>]

HttpResponse(status_code, json, balances) ==
    [outcome |-> "response", status_code |-> status_code, json |-> json,
     balances |-> balances]

EthResponses ==
    {[outcome |-> "exception", status_code |-> 0, json |-> "invalid",
      balances |-> NoBalances]}
    \cup {HttpResponse(s, "invalid", NoBalances) : s \in {200, 404, 429, 500}}
    \cup {HttpResponse(200, "array", NoBalances)}
    \cup {HttpResponse(200, "object", [t |-> "null", items |-> <<>>])}
    \cup {HttpResponse(200, "object", NoBalances)}
    \cup {HttpResponse(s, "object", [t |-> "list", items |-> l]) :
              s \in {200, 500}, l \in HoldingLists}

---------------------------------------------------------------------------
(* config.py: the module attributes the fetchers read.  Reading an attribute *)
(* the module does not define raises AttributeError.                         *)

WHYPE == <<"0","x","5","5","5","5","5","5","5","5","5","5","5","5","5","5","5","5","5","5","5","5","5","5","5","5","5","5","5","5","5","5","5","5","5","5","5","5","5","5","5","5">>
stHYPE == <<"0","x","f","f","a","a","4","a","3","d","9","7","f","e","9","1","0","7","c","e","f","8","a","3","f","4","8","c","0","6","9","f","5","7","7","f","f","7","6","c","c","1">>
wHYPE2 == <<"0","x","2","8","3","1","7","7","5","c","b","5","e","6","4","b","1","d","8","9","2","8","5","3","8","9","3","8","5","8","a","2","6","1","e","8","9","8","f","b","e","b">>
USDC == <<"0","x","b","8","8","3","3","9","c","b","7","1","9","9","b","7","7","e","2","3","d","b","6","e","8","9","0","3","5","3","e","2","2","6","3","2","b","a","6","3","0","f">>
USDe == <<"0","x","5","d","3","a","1","f","f","2","b","6","b","a","b","8","3","b","6","3","c","d","9","a","d","0","7","8","7","0","7","4","0","8","1","a","5","2","e","f","3","4">>

\* the keys of HL_VERIFIED_TOKENS with the peg each is given
HL_VERIFIED_TOKENS ==
    [c \in {WHYPE, stHYPE, wHYPE2, USDC, USDe} |->
        IF c \in {USDC, USDe} THEN "stable" ELSE "hype"]

config ==
    [DUNE_API_KEY |-> "sim",
     ALCHEMY_HL_URL |-> "alchemy",
     COINGECKO_PRICE_URL |-> "coingecko",
     HL_VERIFIED_TOKENS |-> HL_VERIFIED_TOKENS]

\* module.name
GetAttr(module, name) == IF name \in DOMAIN module THEN Ok(module[name]) ELSE Raised

---------------------------------------------------------------------------
(* get_hype_price and _hype_price_cache *)

CacheTtl == 300

EmptyCache == [price |-> Null, timestamp |-> 0]

\* no call has written the entry: it is as the module set it
NoWriter == [price |-> 0, timestamp |-> 0]

\* the entry still served when it is exactly 300 seconds old
CacheHitInclusive(cache, t) == Truthy(cache.price) /\ (t - cache.timestamp) <= CacheTtl

\* if _hype_price_cache['price'] and (now - _hype_price_cache['timestamp']) < 300
CacheHit(cache, t) == Truthy(cache.price) /\ (t - cache.timestamp) < CacheTtl

\* the body of the try block storing every price it reads, above 0 or not
PriceTryBodyStoringAny(cache, t, response) ==
    IF \/ response.outcome = "exception"
       \/ response.status_code >= 400
       \/ response.json # "object"
    THEN [exc |-> TRUE, val |-> Null, cache |-> cache]
    ELSE LET price == Get(response.usd, Num(0))
         IN  IF price.t # "num"
             THEN [exc |-> TRUE, val |-> Null, cache |-> cache]
             ELSE [exc |-> FALSE, val |-> price,
                   cache |-> [price |-> price, timestamp |-> t]]

\* the body of the try block, after requests.get returned `response`:
\* [exc, val (the price returned), cache (the cache it leaves)]
PriceTryBody(cache, t, response) ==
    IF \/ response.outcome = "exception"
       \/ response.status_code >= 400                 \* resp.raise_for_status()
       \/ response.json # "object"                    \* resp.json() raises
    THEN [exc |-> TRUE, val |-> Null, cache |-> cache]
    ELSE LET price == Get(response.usd, Num(0))
         IN  IF price.t # "num"                       \* None > 0, '2' > 0: TypeError
             THEN [exc |-> TRUE, val |-> Null, cache |-> cache]
             ELSE [exc |-> FALSE, val |-> price,
                   cache |-> IF price.n > 0
                             THEN [price |-> price, timestamp |-> t]
                             ELSE cache]

\* the function without its handler: an exception of the try block leaves it
get_hype_price_unguarded(cache, t, response) ==
    IF CacheHit(cache, t)
    THEN [exc |-> FALSE, price |-> cache.price, cache |-> cache, requests |-> <<>>]
    ELSE LET body == PriceTryBody(cache, t, response)
         IN  [exc |-> body.exc, price |-> body.val, cache |-> body.cache,
              requests |-> <<"coingecko">>]

\* [exc (an exception left the call), price (returned), cache (left behind),
\* requests (issued)]; `response` is what the GET produces if the call issues one
get_hype_price(cache, t, response) ==
    IF CacheHit(cache, t)
    THEN [exc |-> FALSE, price |-> cache.price, cache |-> cache, requests |-> <<>>]
    ELSE LET body == PriceTryBody(cache, t, response)
             \* except Exception: return _hype_price_cache.get('price', 0) or 0
             out == TryExcept([exc |-> body.exc, val |-> body.val], OrZero(cache.price))
         IN  [exc |-> out.exc, price |-> out.val, cache |-> body.cache,
              requests |-> <<"coingecko">>]

NoResponse == [outcome |-> "none"]

\* The record of the calls of get_hype_price, kept beside the program: the time
\* of the latest call (at), the latest fetch of a price above 0 made before that
\* call (before) and the latest one made up to and including it (last).
NoFetch == [fetched |-> FALSE, price |-> Null, time |-> 0]
NoCall == [called |-> FALSE, at |-> 0, before |-> NoFetch, last |-> NoFetch]

\* the GET was issued and answered 200 with a JSON object holding a price above 0
FetchedPrice(issued, response) ==
    /\ issued # <<>>
    /\ response.outcome = "response"
    /\ response.status_code = 200
    /\ response.json = "object"
    /\ response.usd.t = "num"
    /\ response.usd.n > 0

LogPriceCall(log, t, issued, response) ==
    [called |-> TRUE,
     at |-> t,
     before |-> log.last,
     last |-> IF FetchedPrice(issued, response)
              THEN [fetched |-> TRUE, price |-> response.usd, time |-> t]
              ELSE log.last]

\* the record of the call that left `cache`
CallThatLeft(cache) ==
    IF cache.price.t = "null" THEN NoCall
    ELSE [called |-> TRUE, at |-> cache.timestamp, before |-> NoFetch,
          last |-> [fetched |-> TRUE, price |-> cache.price, time |-> cache.timestamp]]

PriceResponse(outcome, status_code, json, usd) ==
    [outcome |-> outcome, status_code |-> status_code, json |-> json, usd |-> usd]

PriceResponses ==
    {PriceResponse("exception", 0, "invalid", Absent),
     PriceResponse("response", 429, "object", Absent),
     PriceResponse("response", 200, "invalid", Absent)}
    \cup {PriceResponse("response", 200, "object", u) :
              u \in {Absent, Null, Num(-1), Num(0), Num(2), Num(3)}}

---------------------------------------------------------------------------
(* int(text, 16) *)

HexDigitSeq == <<"0","1","2","3","4","5","6","7","8","9","a","b","c","d","e","f">>

IsHexDigit(c) == \E i \in DOMAIN HexDigitSeq : HexDigitSeq[i] = LowerChar(c)

HexDigitValue(c) == (CHOOSE i \in DOMAIN HexDigitSeq : HexDigitSeq[i] = LowerChar(c)) - 1

RECURSIVE HexValue(_)
HexValue(chars) ==
    IF chars = <<>> THEN 0
    ELSE 16 * HexValue(SubSeq(chars, 1, Len(chars) - 1)) + HexDigitValue(chars[Len(chars)])

\* an optional sign, an optional 0x prefix, then at least one hex digit;
\* None is a TypeError, anything else a ValueError
HexToInt(value) ==
    IF value.t # "str" THEN Raised
    ELSE LET negative == Len(value.s) > 0 /\ value.s[1] = "-"
             unsigned == IF negative THEN Tail(value.s) ELSE value.s
             prefixed == Len(unsigned) >= 2 /\ unsigned[1] = "0"
                         /\ unsigned[2] \in {"x", "X"}
             digits == IF prefixed THEN SubSeq(unsigned, 3, Len(unsigned)) ELSE unsigned
         IN  IF digits = <<>> \/ \E i \in 1..Len(digits) : ~IsHexDigit(digits[i])
             THEN Raised
             ELSE Ok(IF negative THEN 0 - HexValue(digits) ELSE HexValue(digits))

---------------------------------------------------------------------------
(* get_hl_wallet_balance *)

HlFailure(addr) ==
    [address |-> addr, balance_usd |-> Zero, chain |-> "hyperliquid", success |-> FALSE]

\* a POST that raised, or whose status raise_for_status() rejects, or whose
\* body resp.json() cannot parse
RpcRaises(response) ==
    \/ response.outcome = "exception"
    \/ response.status_code >= 400
    \/ response.json # "object"

\* if contract in config.HL_HYPE_TOKENS or contract in {k.lower() for k in config.HL_HYPE_TOKENS}:
\*     total_usd += balance * hype_price
\* the amount the token adds to total_usd
TokenValue(contract, balance, price) ==
    LET tokens == GetAttr(config, "HL_HYPE_TOKENS")
    IN  IF tokens.exc THEN Raised
        ELSE IF \/ contract \in DOMAIN tokens.val
                \/ contract \in {lower(k) : k \in DOMAIN tokens.val}
        THEN Ok(balance * price)
        ELSE Ok(0)

\* the loop with an exception of one token ending it quietly: the totals
\* accumulated so far are handed on
RECURSIVE TokenLoopPartial(_, _, _, _)
TokenLoopPartial(token_balances, price, total_usd, token_count) ==
    IF token_balances = <<>>
    THEN [exc |-> FALSE, total_usd |-> total_usd, token_count |-> token_count]
    ELSE LET tb == Head(token_balances)
             rest == Tail(token_balances)
             contract == StrLower(Get(tb.contractAddress, Str(<<>>)))
             raw_balance == Get(tb.tokenBalance, Str(<<"0","x","0">>))
             balance == HexToInt(raw_balance)
             partial == [exc |-> FALSE, total_usd |-> total_usd, token_count |-> token_count]
         IN  IF contract.exc THEN partial
             ELSE IF raw_balance \in {Str(<<"0","x","0">>), Str(<<"0","x">>)}
             THEN TokenLoopPartial(rest, price, total_usd, token_count)
             ELSE IF balance.exc THEN partial
             ELSE IF balance.val <= 0
             THEN TokenLoopPartial(rest, price, total_usd, token_count)
             ELSE LET value == TokenValue(contract.val, balance.val, price)
                  IN  IF value.exc THEN partial
                      ELSE TokenLoopPartial(rest, price, total_usd + value.val,
                                            token_count + 1)

\* for tb in token_balances: ...     [exc, total_usd, token_count]
RECURSIVE TokenLoop(_, _, _, _)
TokenLoop(token_balances, price, total_usd, token_count) ==
    IF token_balances = <<>>
    THEN [exc |-> FALSE, total_usd |-> total_usd, token_count |-> token_count]
    ELSE LET tb == Head(token_balances)
             rest == Tail(token_balances)
             contract == StrLower(Get(tb.contractAddress, Str(<<>>)))
             raw_balance == Get(tb.tokenBalance, Str(<<"0","x","0">>))
             balance == HexToInt(raw_balance)
             failed == [exc |-> TRUE, total_usd |-> total_usd, token_count |-> token_count]
         IN  IF contract.exc THEN failed
             ELSE IF raw_balance \in {Str(<<"0","x","0">>), Str(<<"0","x">>)}
             THEN TokenLoop(rest, price, total_usd, token_count)
             ELSE IF balance.exc THEN failed
             ELSE IF balance.val <= 0
             THEN TokenLoop(rest, price, total_usd, token_count)
             ELSE LET value == TokenValue(contract.val, balance.val, price)
                  IN  IF value.exc THEN failed
                      ELSE TokenLoop(rest, price, total_usd + value.val, token_count + 1)

\* the body of the try block: [exc, val (the dict returned), requests (issued)]
HlTryBody(addr, price, native, tokens) ==
    IF RpcRaises(native)
    THEN [exc |-> TRUE, val |-> Null, requests |-> <<"eth_getBalance">>]
    ELSE LET native_balance == HexToInt(Get(native.result, Str(<<"0","x","0">>)))
         IN  IF native_balance.exc
             THEN [exc |-> TRUE, val |-> Null, requests |-> <<"eth_getBalance">>]
             ELSE LET both == <<"eth_getBalance", "alchemy_getTokenBalances">>
                      positive == native_balance.val > 0
                      total_usd == IF positive THEN native_balance.val * price ELSE 0
                      token_count == IF positive THEN 1 ELSE 0
                  IN  IF RpcRaises(tokens) \/ tokens.result.t = "null"
                         \/ tokens.tokenBalances.t = "null"
                      THEN [exc |-> TRUE, val |-> Null, requests |-> both]
                      ELSE LET token_balances ==
                                   IF tokens.result.t = "absent"
                                      \/ tokens.tokenBalances.t = "absent"
                                   THEN <<>> ELSE tokens.tokenBalances.items
                               loop == TokenLoop(token_balances, price, total_usd,
                                                 token_count)
                           IN  IF loop.exc
                               THEN [exc |-> TRUE, val |-> Null, requests |-> both]
                               ELSE [exc |-> FALSE,
                                     val |-> [address |-> addr,
                                              balance_usd |-> Money(0, loop.total_usd),
                                              balance_hype |-> native_balance.val,
                                              token_count |-> loop.token_count,
                                              chain |-> "hyperliquid",
                                              success |-> TRUE],
                                     requests |-> both]

\* the price the function goes on with: `if hype_price is None: hype_price = get_hype_price()`
\* hands every other value on as it is (the is-None test inverted: only None is handed on)
ResolvePriceUnlessNone(arg, cache, t, price_resp) ==
    IF arg.t # "null"
    THEN get_hype_price(cache, t, price_resp)
    ELSE [exc |-> FALSE, price |-> arg, cache |-> cache, requests |-> <<>>]

\* if hype_price is None: hype_price = get_hype_price()
ResolvePrice(arg, cache, t, price_resp) ==
    IF arg.t = "null"
    THEN get_hype_price(cache, t, price_resp)
    ELSE [exc |-> FALSE, price |-> arg, cache |-> cache, requests |-> <<>>]

\* [exc (an exception left the call), result (the dict returned), cache, requests]
get_hl_wallet_balance(addr, arg, cache, t, price_resp, native, tokens) ==
    LET resolved == ResolvePrice(arg, cache, t, price_resp)
    IN  IF resolved.exc                                \* get_hype_price() raised
        THEN [exc |-> TRUE, result |-> None, cache |-> resolved.cache,
              requests |-> resolved.requests]
        ELSE IF ~Truthy(resolved.price)                \* if not hype_price
        THEN [exc |-> FALSE, result |-> HlFailure(addr), cache |-> resolved.cache,
              requests |-> resolved.requests]
        ELSE LET body == HlTryBody(addr, resolved.price.n, native, tokens)
                 out == TryExcept([exc |-> body.exc, val |-> body.val], HlFailure(addr))
             IN  [exc |-> out.exc, result |-> IF out.exc THEN None ELSE out.val,
                  cache |-> resolved.cache,
                  requests |-> resolved.requests \o body.requests]

---------------------------------------------------------------------------
(* What the Hyperliquid RPC endpoint can answer *)

MaxTokens == 2

UnknownContract == <<"0","x","0","0","0","0","0","0","0","0","0","0","0","0","0","0","0","0","0","0","0","0","0","0","0","0","0","0","0","0","0","0","0","0","d","e","a","d","b","e","e","f">>
stHYPEUpper == <<"0","x","F","F","A","A","4","A","3","D","9","7","F","E","9","1","0","7","C","E","F","8","A","3","F","4","8","C","0","6","9","F","5","7","7","F","F","7","6","C","C","1">>

Token(contract, raw) == [contractAddress |-> contract, tokenBalance |-> raw]

TokenBalanceEntries == {
    Token(Str(WHYPE), Str(<<"0","x","3">>)),
    Token(Str(stHYPEUpper), Str(<<"0","x","0","0">>)),
    Token(Str(UnknownContract), Str(<<"0","x","3">>)),
    Token(Str(UnknownContract), Str(<<"0","x","0">>)),
    Token(Str(UnknownContract), Str(<<"0","x">>)),
    Token(Str(WHYPE), Str(<<"z","z">>)),
    Token(Null, Str(<<"0","x","3">>)) }

TokenLists == UNION { [1..k -> TokenBalanceEntries] : k \in 0..MaxTokens }

RpcResponse(outcome, status_code, json, result, tokenBalances) ==
    [outcome |-> outcome, status_code |-> status_code, json |-> json,
     result |-> result, tokenBalances |-> tokenBalances]

NativeResponses ==
    {RpcResponse("exception", 0, "invalid", Absent, NoBalances),
     RpcResponse("response", 500, "object", Absent, NoBalances),
     RpcResponse("response", 200, "invalid", Absent, NoBalances)}
    \cup {RpcResponse("response", 200, "object", r, NoBalances) :
              r \in {Absent, Null, Str(<<"0","x","0">>), Str(<<"0","x">>),
                     Str(<<"0","x","2">>), Str(<<"-","0","x","2">>)}}

TokenResponses ==
    {RpcResponse("exception", 0, "invalid", Absent, NoBalances),
     RpcResponse("response", 500, "object", Absent, NoBalances),
     RpcResponse("response", 200, "object", Absent, NoBalances),
     RpcResponse("response", 200, "object", Null, NoBalances),
     RpcResponse("response", 200, "object", Object, NoBalances),
     RpcResponse("response", 200, "object", Object, [t |-> "null", items |-> <<>>])}
    \cup {RpcResponse("response", 200, "object", Object, [t |-> "list", items |-> l]) :
              l \in TokenLists}

\* the hype_price arguments: None, 0 and prices
PriceArguments == {Null, Num(0), Num(-1), Num(2), Num(3)}

---------------------------------------------------------------------------
(* get_wallet_balance_multi_chain *)

\* result.get('balance_usd', 0) if result.get('success') else 0
ChainUsd(result) ==
    IF DictGet(result, "success", FALSE) THEN DictGet(result, "balance_usd", Zero) ELSE Zero

\* eth_result.get('success', False) and hl_result.get('success', False)
MergedSuccessBoth(eth, hl) ==
    DictGet(eth, "success", FALSE) /\ DictGet(hl, "success", FALSE)

\* eth_result.get('success', False) or hl_result.get('success', False)
MergedSuccess(eth, hl) ==
    DictGet(eth, "success", FALSE) \/ DictGet(hl, "success", FALSE)

\* the dict built from the two chain results, the Hyperliquid balance left out
\* of the total
MergeEthOnly(addr, eth, hl) ==
    [address |-> addr,
     balance_usd |-> ChainUsd(eth),
     eth_balance_usd |-> ChainUsd(eth),
     hl_balance_usd |-> ChainUsd(hl),
     hl_balance_hype |-> DictGet(hl, "balance_hype", 0),
     token_count |-> DictGet(eth, "token_count", 0) + DictGet(hl, "token_count", 0),
     success |-> MergedSuccess(eth, hl)]

\* the dict built from the two chain results
Merge(addr, eth, hl) ==
    LET eth_usd == ChainUsd(eth)
        hl_usd == ChainUsd(hl)
    IN  [address |-> addr,
         balance_usd |-> Plus(eth_usd, hl_usd),
         eth_balance_usd |-> eth_usd,
         hl_balance_usd |-> hl_usd,
         hl_balance_hype |-> DictGet(hl, "balance_hype", 0),
         token_count |-> DictGet(eth, "token_count", 0) + DictGet(hl, "token_count", 0),
         success |-> MergedSuccess(eth, hl)]

\* the prices get_hype_price can hand to get_hl_wallet_balance
Prices == {0} \cup {r.usd.n : r \in {q \in PriceResponses : q.usd.t = "num"}}

\* how get_wallet_balance can end for an address ([exc, val (the dict returned)]),
\* over every answer of the balances endpoint
EthReturns == [a \in Addresses |-> {get_wallet_balance(a, r) : r \in EthResponses}]

\* how get_hl_wallet_balance can end (and the requests it then issued) for an
\* address and a price, over every answer of the RPC endpoint
HlReturns ==
    [a \in Addresses, p \in Prices |->
        UNION {{[exc |-> out.exc, result |-> out.result, requests |-> out.requests] :
                   out \in {get_hl_wallet_balance(a, Num(p), EmptyCache, 0, NoResponse,
                                                  n, k)}} :
               n \in NativeResponses, k \in TokenResponses}]

\* get_wallet_balance_multi_chain as one call: [exc (an exception of one of the
\* three calls left it), result (the dict returned), cache (the price cache it leaves)]
get_wallet_balance_multi_chain(addr, cache, t, price_resp, eth_resp, native, tokens) ==
    LET price == get_hype_price(cache, t, price_resp)
        eth == get_wallet_balance(addr, eth_resp)
        hl == get_hl_wallet_balance(addr, price.price, price.cache, t, price_resp,
                                    native, tokens)
    IN  IF price.exc \/ eth.exc
        THEN [exc |-> TRUE, result |-> None, cache |-> price.cache]
        ELSE IF hl.exc
        THEN [exc |-> TRUE, result |-> None, cache |-> hl.cache]
        ELSE [exc |-> FALSE, result |-> Merge(addr, eth.val, hl.result), cache |-> hl.cache]

---------------------------------------------------------------------------
(* The wallet scans: fetch_all_wallet_balances and refresh_data.  Both hand  *)
(* one task per wallet to a ThreadPoolExecutor(max_workers=5) and collect    *)
(* the results with as_completed.  The executor starts a worker thread on a  *)
(* submit if it counts no idle thread and has started fewer than             *)
(* max_workers; each thread runs one queued task at a time, oldest first.    *)
(* as_completed yields the futures found finished when it is called first,  *)
(* in the order of a set, then the others as they finish.                    *)

max_workers == 5

Scanners == {"fetch_all_wallet_balances", "refresh_data"}

\* the addresses the scanned data sets hold
KnownWallets == <<"0x01", "0x02", "0x03", "0x04", "0x05", "0x06", "0x07", "0x08">>

\* a thread count past max_workers not refused
BelowMaxWorkersUnchecked(n) == n >= 0

\* if num_threads < self._max_workers
BelowMaxWorkers(n) == n < max_workers

\* whether a submit starts a thread: never past max_workers, always when every
\* thread is running a task, and otherwise as the idle count of the executor has it
ThreadStarts(n, running) ==
    IF ~BelowMaxWorkers(n) THEN {FALSE}
    ELSE IF running >= n THEN {TRUE}
    ELSE {TRUE, FALSE}

Future(wallet, state, result) == [wallet |-> wallet, state |-> state, result |-> result]

InState(futures, state) == {i \in DOMAIN futures : futures[i].state = state}

\* the oldest work item of the queue
OldestPending(futures) ==
    CHOOSE i \in InState(futures, "pending") :
        \A j \in InState(futures, "pending") : i <= j

RECURSIVE Orderings(_)
Orderings(set) ==
    IF set = {} THEN {<<>>}
    ELSE UNION {{<<x>> \o rest : rest \in Orderings(set \ {x})} : x \in set}

\* unique_wallets = set(); for user in users: unique_wallets.add(user)
RECURSIVE UniqueWallets(_)
UniqueWallets(users) ==
    IF users = <<>> THEN {} ELSE {Head(users)} \cup UniqueWallets(Tail(users))

\* what the sources answer to the requests of a task; nothing but failed
\* requests when they cannot be reached
Unreachable == {[outcome |-> "exception", status_code |-> 0, json |-> "invalid",
                 balances |-> NoBalances]}

ScanEthResponses(reach) ==
    IF reach = "down" THEN Unreachable
    ELSE Unreachable
         \cup {HttpResponse(200, "object", NoBalances),
               HttpResponse(200, "object",
                   [t |-> "list",
                    items |-> <<Entry(Str(<<"U","S","D","C">>),
                                      Str(<<"U","S","D"," ","C","o","i","n">>),
                                      Num(5), Num(50))>>])}

ScanPriceResponses(reach) ==
    {PriceResponse("exception", 0, "invalid", Absent)}
    \cup IF reach = "down" THEN {}
         ELSE {PriceResponse("response", 200, "object", Num(2))}

ScanNativeResponses(reach) ==
    {RpcResponse("exception", 0, "invalid", Absent, NoBalances)}
    \cup IF reach = "down" THEN {}
         ELSE {RpcResponse("response", 200, "object", Str(<<"0","x","2">>), NoBalances)}

ScanTokenResponses(reach) ==
    {RpcResponse("exception", 0, "invalid", Absent, NoBalances)}
    \cup IF reach = "down" THEN {}
         ELSE {RpcResponse("response", 200, "object", Absent, NoBalances)}

\* how get_wallet_balance can end for a wallet of the scan: [exc, val]
ScanEthReturns ==
    [a \in {KnownWallets[i] : i \in DOMAIN KnownWallets}, reach \in {"up", "down"} |->
        {get_wallet_balance(a, r) : r \in ScanEthResponses(reach)}]

\* sum(r.get(key, 0) for r in results)
RECURSIVE SumOf(_, _)
SumOf(rs, key) ==
    IF rs = <<>> THEN Zero ELSE Plus(DictGet(Head(rs), key, Zero), SumOf(Tail(rs), key))

\* the total taken from the Ethereum component of the results
TotalEthValue(rs) == SumOf(rs, "eth_balance_usd")

\* total_value = sum(r.get('balance_usd', 0) for r in results)
TotalValue(rs) == SumOf(rs, "balance_usd")

\* successful = sum(1 for r in results if r.get('success'))
Successful(rs) == Cardinality({i \in DOMAIN rs : DictGet(rs[i], "success", FALSE)})

\* a / b of two integers, b above 0, as the fraction in lowest terms
RECURSIVE GCD(_, _)
GCD(a, b) == IF b = 0 THEN a ELSE GCD(b, a % b)

Abs(a) == IF a < 0 THEN 0 - a ELSE a

Frac(a, b) ==
    LET g == GCD(Abs(a), b)
    IN  [num |-> a \div g, den |-> b \div g]

\* total / n of an amount of money; n is above 0
Quotient(total, n) == [usd |-> Frac(total.usd, n), atto |-> Frac(total.atto, n)]

\* the summary of fetch_all_wallet_balances
\*     avg_value = total_value / len(results) if results else 0
FetchAllSummary(rs) ==
    LET total_value == TotalValue(rs)
    IN  [total_value_usd |-> total_value,
         avg_value_usd |-> IF rs # <<>> THEN Quotient(total_value, Len(rs))
                           ELSE Quotient(Zero, 1),
         wallet_balances |-> rs]

\* balance_data of refresh_data
\*     avg_value = total_value / successful if successful else 0
RefreshSummary(rs, list, price, t) ==
    LET total_value == TotalValue(rs)
        successful == Successful(rs)
    IN  [total_value_usd |-> total_value,
         total_eth_usd |-> SumOf(rs, "eth_balance_usd"),
         total_hl_usd |-> SumOf(rs, "hl_balance_usd"),
         avg_value_usd |-> IF successful # 0 THEN Quotient(total_value, successful)
                           ELSE Quotient(Zero, 1),
         hype_price |-> price,
         wallet_balances |-> rs,
         wallets_scanned |-> Len(list),
         wallets_successful |-> successful,
         timestamp |-> t]

---------------------------------------------------------------------------
(* The state machines *)

StartTime == 1000
ClockStep == 150
MaxTicks == 3

\* the state in which nothing has been called
Untouched ==
    /\ balance_entry = NoEntry
    /\ spam_verdict = Pending
    /\ eth_response = NoResponse
    /\ eth_result = None
    /\ hype_price = Null
    /\ rpc_native = NoResponse
    /\ rpc_tokens = NoResponse
    /\ hl_result = None
    /\ price_response = NoResponse
    /\ hype_price_cache = EmptyCache
    /\ now = StartTime
    /\ requests = <<>>
    /\ pc = "start"
    /\ address = ""
    /\ merged = None
    /\ price_call = NoCall
    /\ scanner = "none"
    /\ sources = "up"
    /\ wallets = <<>>
    /\ future_to_wallet = <<>>
    /\ num_threads = 0
    /\ yield_first = {}
    /\ unyielded = <<>>
    /\ results = <<>>
    /\ summary = None
    /\ df = None
    /\ metrics = Pending
    /\ max_users = 0
    /\ all_users = <<>>
    /\ offset = 0
    /\ page_requests = <<>>
    /\ pages = <<>>
    /\ callers = <<>>
    /\ written_by = NoWriter

(* is_spam_token applied to one token balance *)

InitSpam ==
    /\ balance_entry \in TokenBalances
    /\ spam_verdict = Pending
    /\ eth_response = NoResponse
    /\ eth_result = None
    /\ hype_price = Null
    /\ rpc_native = NoResponse
    /\ rpc_tokens = NoResponse
    /\ hl_result = None
    /\ price_response = NoResponse
    /\ hype_price_cache = EmptyCache
    /\ now = StartTime
    /\ requests = <<>>
    /\ pc = "start"
    /\ address = ""
    /\ merged = None
    /\ price_call = NoCall
    /\ scanner = "none"
    /\ sources = "up"
    /\ wallets = <<>>
    /\ future_to_wallet = <<>>
    /\ num_threads = 0
    /\ yield_first = {}
    /\ unyielded = <<>>
    /\ results = <<>>
    /\ summary = None
    /\ df = None
    /\ metrics = Pending
    /\ max_users = 0
    /\ all_users = <<>>
    /\ offset = 0
    /\ page_requests = <<>>
    /\ pages = <<>>
    /\ callers = <<>>
    /\ written_by = NoWriter

IsSpamToken ==
    /\ pc = "start"
    /\ spam_verdict' = Outcome(is_spam_token(balance_entry))
    /\ pc' = IF is_spam_token(balance_entry).exc THEN "raised" ELSE "returned"
    /\ UNCHANGED <<balance_entry, eth_response, eth_result, hype_price, rpc_native,
                   rpc_tokens, hl_result, price_response, hype_price_cache, now,
                   requests, address, merged, price_call, scanner,
                   sources, wallets, future_to_wallet, num_threads,
                   yield_first, unyielded, results, summary, df,
                   metrics, max_users, all_users, offset,
                   page_requests, pages, callers, written_by>>

NextSpam == IsSpamToken

SpecSpam == InitSpam /\ [][NextSpam]_vars

(* get_wallet_balance applied to one answer of the balances endpoint *)

InitEth ==
    /\ address \in Addresses
    /\ eth_response \in EthResponses
    /\ balance_entry = NoEntry
    /\ spam_verdict = Pending
    /\ eth_result = None
    /\ hype_price = Null
    /\ rpc_native = NoResponse
    /\ rpc_tokens = NoResponse
    /\ hl_result = None
    /\ price_response = NoResponse
    /\ hype_price_cache = EmptyCache
    /\ now = StartTime
    /\ requests = <<>>
    /\ pc = "start"
    /\ merged = None
    /\ price_call = NoCall
    /\ scanner = "none"
    /\ sources = "up"
    /\ wallets = <<>>
    /\ future_to_wallet = <<>>
    /\ num_threads = 0
    /\ yield_first = {}
    /\ unyielded = <<>>
    /\ results = <<>>
    /\ summary = None
    /\ df = None
    /\ metrics = Pending
    /\ max_users = 0
    /\ all_users = <<>>
    /\ offset = 0
    /\ page_requests = <<>>
    /\ pages = <<>>
    /\ callers = <<>>
    /\ written_by = NoWriter

GetWalletBalance ==
    /\ pc = "start"
    /\ LET out == get_wallet_balance(address, eth_response)
       IN  /\ pc' = IF out.exc THEN "raised" ELSE "returned"
           /\ eth_result' = IF out.exc THEN None ELSE out.val
    /\ requests' = <<"balances">>
    /\ UNCHANGED <<balance_entry, spam_verdict, eth_response, hype_price, rpc_native,
                   rpc_tokens, hl_result, price_response, hype_price_cache, now,
                   address, merged, price_call, scanner, sources,
                   wallets, future_to_wallet, num_threads, yield_first,
                   unyielded, results,
                   summary, df, metrics, max_users, all_users, offset,
                   page_requests, pages, callers, written_by>>

NextEth == GetWalletBalance

SpecEth == InitEth /\ [][NextEth]_vars

(* get_hl_wallet_balance applied to one price argument *)

\* the cache as earlier calls can have left it: empty, fresh, stale
CachesAt(t) ==
    {EmptyCache,
     [price |-> Num(2), timestamp |-> t - 100],
     [price |-> Num(3), timestamp |-> t - CacheTtl]}

InitHl ==
    /\ address \in Addresses
    /\ hype_price \in PriceArguments
    /\ now = StartTime
    /\ hype_price_cache \in CachesAt(StartTime)
    /\ price_call = CallThatLeft(hype_price_cache)
    /\ balance_entry = NoEntry
    /\ spam_verdict = Pending
    /\ eth_response = NoResponse
    /\ eth_result = None
    /\ rpc_native = NoResponse
    /\ rpc_tokens = NoResponse
    /\ hl_result = None
    /\ price_response = NoResponse
    /\ requests = <<>>
    /\ pc = "start"
    /\ merged = None
    /\ scanner = "none"
    /\ sources = "up"
    /\ wallets = <<>>
    /\ future_to_wallet = <<>>
    /\ num_threads = 0
    /\ yield_first = {}
    /\ unyielded = <<>>
    /\ results = <<>>
    /\ summary = None
    /\ df = None
    /\ metrics = Pending
    /\ max_users = 0
    /\ all_users = <<>>
    /\ offset = 0
    /\ page_requests = <<>>
    /\ pages = <<>>
    /\ callers = <<>>
    /\ written_by = NoWriter

\* `answer` if the call issued `request`, and no answer if it did not
AnswerTo(request, issued, answer) ==
    IF \E i \in DOMAIN issued : issued[i] = request THEN answer ELSE NoResponse

\* the answers a call of get_hype_price can meet: the price index answers only
\* if it is asked
PriceAnswers(cache, t) == IF CacheHit(cache, t) THEN {NoResponse} ELSE PriceResponses

GetHlWalletBalance ==
    /\ pc = "start"
    /\ \E p \in PriceResponses, n \in NativeResponses, k \in TokenResponses :
        \E out \in {get_hl_wallet_balance(address, hype_price, hype_price_cache, now,
                                          p, n, k)} :
            /\ hl_result' = out.result
            /\ hype_price_cache' = out.cache
            /\ requests' = out.requests
            /\ price_response' = AnswerTo("coingecko", out.requests, p)
            /\ rpc_native' = AnswerTo("eth_getBalance", out.requests, n)
            /\ rpc_tokens' = AnswerTo("alchemy_getTokenBalances", out.requests, k)
            /\ price_call' = IF hype_price.t = "null"
                              THEN LogPriceCall(price_call, now, out.requests, p)
                              ELSE price_call
            /\ pc' = IF out.exc THEN "raised" ELSE "returned"
    /\ UNCHANGED <<balance_entry, spam_verdict, eth_response, eth_result, hype_price,
                   now, address, merged, scanner, sources, wallets,
                   future_to_wallet, num_threads, yield_first,
                   unyielded, results,
                   summary, df, metrics, max_users, all_users, offset,
                   page_requests, pages, callers, written_by>>

NextHl == GetHlWalletBalance

SpecHl == InitHl /\ [][NextHl]_vars

(* get_wallet_balance_multi_chain called again and again while time passes. *)
(* The caller's position is the call it makes next.                          *)

Init == Untouched

\* hype_price = get_hype_price()
CallGetHypePrice ==
    /\ pc \in {"start", "returned"}
    /\ \E a \in Addresses, p \in PriceAnswers(hype_price_cache, now) :
        \E price \in {get_hype_price(hype_price_cache, now, p)} :
            /\ address' = a
            /\ hype_price' = price.price
            /\ hype_price_cache' = price.cache
            /\ price_response' = p
            /\ requests' = price.requests
            /\ price_call' = LogPriceCall(price_call, now, price.requests, p)
            /\ pc' = IF price.exc THEN "raised" ELSE "get_wallet_balance"
    /\ eth_result' = None
    /\ hl_result' = None
    /\ merged' = None
    /\ UNCHANGED <<balance_entry, spam_verdict, eth_response, rpc_native, rpc_tokens, now,
                   scanner, sources, wallets, future_to_wallet,
                   num_threads, yield_first, unyielded, results, summary,
                   df, metrics, max_users, all_users, offset,
                   page_requests, pages, callers, written_by>>

\* eth_result = get_wallet_balance(address, dune_api_key)
CallGetWalletBalance ==
    /\ pc = "get_wallet_balance"
    /\ \E eth \in EthReturns[address] :
        /\ eth_result' = IF eth.exc THEN None ELSE eth.val
        /\ pc' = IF eth.exc THEN "raised" ELSE "get_hl_wallet_balance"
    /\ requests' = requests \o <<"balances">>
    /\ UNCHANGED <<balance_entry, spam_verdict, eth_response, hype_price, rpc_native,
                   rpc_tokens, hl_result, price_response, hype_price_cache, now,
                   address, merged, price_call, scanner, sources,
                   wallets, future_to_wallet, num_threads, yield_first,
                   unyielded, results,
                   summary, df, metrics, max_users, all_users, offset,
                   page_requests, pages, callers, written_by>>

\* hl_result = get_hl_wallet_balance(address, hype_price), and the return
CallGetHlWalletBalance ==
    /\ pc = "get_hl_wallet_balance"
    /\ \E hl \in HlReturns[address, hype_price.n] :
        /\ hl_result' = hl.result
        /\ requests' = requests \o hl.requests
        /\ merged' = IF hl.exc THEN None ELSE Merge(address, eth_result, hl.result)
        /\ pc' = IF hl.exc THEN "raised" ELSE "returned"
    /\ UNCHANGED <<balance_entry, spam_verdict, eth_response, eth_result, hype_price,
                   rpc_native, rpc_tokens, price_response, hype_price_cache, now,
                   address, price_call, scanner, sources, wallets,
                   future_to_wallet, num_threads, yield_first,
                   unyielded, results,
                   summary, df, metrics, max_users, all_users, offset,
                   page_requests, pages, callers, written_by>>

\* time passes between two calls
Tick ==
    /\ pc \in {"start", "returned"}
    /\ now < StartTime + MaxTicks * ClockStep
    /\ now' = now + ClockStep
    /\ UNCHANGED <<balance_entry, spam_verdict, eth_response, eth_result, hype_price,
                   rpc_native, rpc_tokens, hl_result, price_response, hype_price_cache,
                   requests, pc, address, merged, price_call, scanner,
                   sources, wallets, future_to_wallet, num_threads,
                   yield_first, unyielded, results, summary, df,
                   metrics, max_users, all_users, offset,
                   page_requests, pages, callers, written_by>>

Next ==
    \/ CallGetHypePrice
    \/ CallGetWalletBalance
    \/ CallGetHlWalletBalance
    \/ Tick

Spec == Init /\ [][Next]_vars

(* get_hype_price called again and again while time passes *)

InitPrice == Untouched

GetHypePrice ==
    /\ pc \in {"start", "returned"}
    /\ \E p \in PriceAnswers(hype_price_cache, now) :
        \E price \in {get_hype_price(hype_price_cache, now, p)} :
            /\ hype_price' = price.price
            /\ hype_price_cache' = price.cache
            /\ price_response' = p
            /\ requests' = price.requests
            /\ price_call' = LogPriceCall(price_call, now, price.requests, p)
            /\ pc' = IF price.exc THEN "raised" ELSE "returned"
    /\ UNCHANGED <<balance_entry, spam_verdict, eth_response, eth_result, rpc_native,
                   rpc_tokens, hl_result, now, address, merged,
                   scanner, sources, wallets, future_to_wallet,
                   num_threads, yield_first, unyielded, results, summary,
                   df, metrics, max_users, all_users, offset,
                   page_requests, pages, callers, written_by>>

NextPrice ==
    \/ GetHypePrice
    \/ Tick

SpecPrice == InitPrice /\ [][NextPrice]_vars

(* A wallet scan.  The main thread starts, submits a task per wallet, calls   *)
(* as_completed, appends each result it yields and builds the summary; the   *)
(* worker threads take tasks from the queue and finish them meanwhile.       *)

call_vars == <<balance_entry, spam_verdict, eth_response, eth_result, rpc_native,
               rpc_tokens, hl_result, requests, address, merged>>

\* the state in which no scan has started, for the scanner, the wallets it
\* found and the reach of the balance sources
ScanNotStarted(kind, list, reach) ==
    /\ scanner = kind
    /\ wallets = list
    /\ sources = reach
    /\ future_to_wallet = <<>>
    /\ num_threads = 0
    /\ yield_first = {}
    /\ unyielded = <<>>
    /\ results = <<>>
    /\ summary = None
    /\ balance_entry = NoEntry
    /\ spam_verdict = Pending
    /\ eth_response = NoResponse
    /\ eth_result = None
    /\ hype_price = Null
    /\ rpc_native = NoResponse
    /\ rpc_tokens = NoResponse
    /\ hl_result = None
    /\ price_response = NoResponse
    /\ hype_price_cache = EmptyCache
    /\ price_call = NoCall
    /\ now = StartTime
    /\ requests = <<>>
    /\ pc = "start"
    /\ address = ""
    /\ merged = None
    /\ df = None
    /\ metrics = Pending
    /\ max_users = 0
    /\ all_users = <<>>
    /\ offset = 0
    /\ page_requests = <<>>
    /\ pages = <<>>
    /\ callers = <<>>
    /\ written_by = NoWriter

\* the function up to the pool: refresh_data returns at once without wallets,
\* and asks the HYPE price before the scan (an exception of that call would end
\* it in its handler, without a summary)
StartScan ==
    /\ pc = "start"
    /\ scanner \in Scanners
    /\ IF scanner = "refresh_data" /\ wallets = <<>>
       THEN /\ pc' = "done"
            /\ UNCHANGED <<hype_price, hype_price_cache, price_response, price_call>>
       ELSE IF scanner = "refresh_data"
       THEN /\ \E p \in IF CacheHit(hype_price_cache, now) THEN {NoResponse}
                        ELSE ScanPriceResponses(sources) :
                \E price \in {get_hype_price(hype_price_cache, now, p)} :
                    /\ hype_price' = price.price
                    /\ hype_price_cache' = price.cache
                    /\ price_response' = p
                    /\ price_call' = LogPriceCall(price_call, now, price.requests, p)
                    /\ pc' = IF price.exc THEN "done" ELSE "submit"
       ELSE /\ pc' = "submit"
            /\ UNCHANGED <<hype_price, hype_price_cache, price_response, price_call>>
    /\ UNCHANGED <<call_vars, now, scanner, sources, wallets, future_to_wallet,
                   num_threads, yield_first, unyielded, results, summary,
                   df, metrics, max_users, all_users, offset,
                   page_requests, pages, callers, written_by>>

\* executor.submit(task, wallet, key) for the next wallet of the list
Submit ==
    /\ pc = "submit"
    /\ Len(future_to_wallet) < Len(wallets)
    /\ future_to_wallet' =
           Append(future_to_wallet,
                  Future(wallets[Len(future_to_wallet) + 1], "pending", None))
    /\ \E start \in ThreadStarts(num_threads,
                                 Cardinality(InState(future_to_wallet, "running"))) :
        num_threads' = IF start THEN num_threads + 1 ELSE num_threads
    /\ UNCHANGED <<call_vars, hype_price, hype_price_cache, price_response, price_call,
                   now, pc, scanner, sources, wallets, yield_first, unyielded,
                   results, summary, df, metrics, max_users, all_users,
                   offset, page_requests, pages, callers, written_by>>

\* a worker thread that runs no task takes the oldest work item
TakeWork ==
    /\ pc \in {"submit", "as_completed"}
    /\ InState(future_to_wallet, "pending") # {}
    /\ Cardinality(InState(future_to_wallet, "running")) < num_threads
    /\ future_to_wallet' =
           [future_to_wallet EXCEPT ![OldestPending(future_to_wallet)].state = "running"]
    /\ UNCHANGED <<call_vars, hype_price, hype_price_cache, price_response, price_call,
                   now, pc, scanner, sources, wallets, num_threads, yield_first,
                   unyielded, results, summary, df, metrics, max_users,
                   all_users, offset, page_requests, pages, callers,
                   written_by>>

\* the result of a future whose task ended with an exception
TaskRaised == [exception |-> TRUE]

\* what the task of a wallet returns (TaskRaised if an exception leaves it) and
\* the price cache it leaves: get_wallet_balance for fetch_all_wallet_balances,
\* get_wallet_balance_multi_chain for refresh_data
TaskOutcomes(kind, wallet, reach, cache, t) ==
    IF kind = "fetch_all_wallet_balances"
    THEN {[result |-> IF r.exc THEN TaskRaised ELSE r.val, cache |-> cache,
           price_response |-> NoResponse] : r \in ScanEthReturns[wallet, reach]}
    ELSE UNION {{[result |-> IF out.exc THEN TaskRaised ELSE out.result,
                  cache |-> out.cache, price_response |-> p] :
                    out \in {get_wallet_balance_multi_chain(wallet, cache, t, p, e, n, k)}} :
                p \in IF CacheHit(cache, t) THEN {NoResponse}
                      ELSE ScanPriceResponses(reach),
                e \in ScanEthResponses(reach),
                n \in ScanNativeResponses(reach),
                k \in ScanTokenResponses(reach)}

\* the task a worker thread runs returns; its future is finished and told to
\* the waiter of as_completed if there is one
FinishTask ==
    /\ pc \in {"submit", "as_completed"}
    /\ \E i \in InState(future_to_wallet, "running") :
        /\ \E out \in TaskOutcomes(scanner, future_to_wallet[i].wallet, sources,
                                   hype_price_cache, now) :
            /\ future_to_wallet' =
                   [future_to_wallet EXCEPT ![i] = Future(@.wallet, "finished", out.result)]
            /\ hype_price_cache' = out.cache
            /\ price_response' = out.price_response
            /\ price_call' =
                   IF scanner = "refresh_data"
                   THEN LogPriceCall(price_call, now,
                                     IF out.price_response = NoResponse THEN <<>>
                                     ELSE <<"coingecko">>,
                                     out.price_response)
                   ELSE price_call
        /\ unyielded' = Append(unyielded, i)
    /\ UNCHANGED <<call_vars, hype_price, now, pc, scanner, sources, wallets,
                   num_threads, yield_first, results, summary, df,
                   metrics, max_users, all_users, offset,
                   page_requests, pages, callers, written_by>>

\* as_completed(future_to_wallet) is called once every wallet is submitted
AsCompleted ==
    /\ pc = "submit"
    /\ Len(future_to_wallet) = Len(wallets)
    /\ yield_first' = InState(future_to_wallet, "finished")
    /\ pc' = "as_completed"
    /\ UNCHANGED <<call_vars, hype_price, hype_price_cache, price_response, price_call,
                   now, scanner, sources, wallets, future_to_wallet, num_threads,
                   unyielded, results, summary, df, metrics, max_users,
                   all_users, offset, page_requests, pages, callers,
                   written_by>>

\* waiter.finished_futures: the futures that finished since as_completed was called
Waiting(finished, first) == SelectSeq(finished, LAMBDA i : i \notin first)

\* of those that finished since, the newest is yielded (the list not reversed)
NextYieldsNewest(finished, first) ==
    IF first # {} THEN first
    ELSE IF Waiting(finished, first) # <<>>
    THEN {Waiting(finished, first)[Len(Waiting(finished, first))]}
    ELSE {}

\* the futures as_completed can yield next: any of those it found finished,
\* then the oldest of those that finished since
NextYields(finished, first) ==
    IF first # {} THEN first
    ELSE IF Waiting(finished, first) # <<>> THEN {Head(Waiting(finished, first))}
    ELSE {}

\* for future in as_completed(...): results.append(future.result()).
\* future.result() raises again what the task raised: nothing in the loop
\* catches it, so it leaves fetch_all_wallet_balances, and ends refresh_data in
\* its handler, without a summary.
Collect ==
    /\ pc = "as_completed"
    /\ \E i \in NextYields(unyielded, yield_first) :
        /\ IF future_to_wallet[i].result = TaskRaised
           THEN /\ pc' = IF scanner = "refresh_data" THEN "done" ELSE "raised"
                /\ UNCHANGED results
           ELSE /\ results' = Append(results, future_to_wallet[i].result)
                /\ UNCHANGED pc
        /\ yield_first' = yield_first \ {i}
        /\ unyielded' = SelectSeq(unyielded, LAMBDA j : j # i)
    /\ UNCHANGED <<call_vars, hype_price, hype_price_cache, price_response, price_call,
                   now, scanner, sources, wallets, future_to_wallet, num_threads,
                   summary, df, metrics, max_users, all_users, offset,
                   page_requests, pages, callers, written_by>>

\* every future was yielded: the pool is shut down and the summary built
Summarise ==
    /\ pc = "as_completed"
    /\ Len(results) = Len(future_to_wallet)
    /\ summary' = IF scanner = "fetch_all_wallet_balances"
                  THEN FetchAllSummary(results)
                  ELSE RefreshSummary(results, wallets, hype_price, now)
    /\ pc' = "done"
    /\ UNCHANGED <<call_vars, hype_price, hype_price_cache, price_response, price_call,
                   now, scanner, sources, wallets, future_to_wallet, num_threads,
                   yield_first, unyielded, results, df, metrics,
                   max_users, all_users, offset, page_requests, pages,
                   callers, written_by>>

NextScan ==
    \/ StartScan
    \/ Submit
    \/ TakeWork
    \/ FinishTask
    \/ AsCompleted
    \/ Collect
    \/ Summarise

(* a scan of a small data set, the sources answering or not *)

MaxWallets == 2

\* the user lists of the collections, a wallet possibly in several of them
UserLists == UNION {[1..k -> {KnownWallets[i] : i \in 1..MaxWallets}] : k \in 0..MaxWallets}

InitScan ==
    \E kind \in Scanners, users \in UserLists, reach \in {"up", "down"} :
        \E list \in Orderings(UniqueWallets(users)) :
            ScanNotStarted(kind, list, reach)

SpecScan == InitScan /\ [][NextScan]_vars

(* a scan of more wallets than the pool has threads, the sources out of reach *)

MaxPoolWallets == 6

InitPool ==
    \E kind \in Scanners :
        ScanNotStarted(kind, SubSeq(KnownWallets, 1, MaxPoolWallets), "down")

SpecPool == InitPool /\ [][NextScan]_vars

---------------------------------------------------------------------------
(* calculate_metrics: the collection table sorted, shared out in percent,  *)
(* ranked and categorised. A frame holds the list of its rows in index     *)
(* order; a percentage is held as its number of hundredths (3.12 is 312).  *)

MaxRows == 3

\* the entity names of the collections
Entities == {<<"A","z","u","k","i">>, <<"a","a","v","e">>,
             <<"F","a","s","t">>, <<"P","u","d","g","y","L","i","d","o">>}

\* the wallet counts of a collection: counts whose total is 0, totals that do
\* not divide 100 evenly (1 of 3) and a total of 32, where a share lies exactly
\* between two hundredths (1 of 32 is 3.125 percent)
WalletCounts == {0, 1, 2, 31}

DataFrame(rows) == [rows |-> rows]

\* the lists of n rows, one row for each entity listed
RowsOf(n) ==
    {f \in [1..n -> [entity : Entities, unique_wallets : WalletCounts]] :
        \A i, j \in 1..n : i # j => f[i].entity # f[j].entity}

\* the arguments of calculate_metrics: None, the empty frame, frames of rows
InputFrames == {None} \cup {DataFrame(rows) : rows \in UNION {RowsOf(n) : n \in 0..MaxRows}}

\* if df is None or df.empty
IsEmptyFrame(frame) == frame = None \/ frame = DataFrame(<<>>)

Descending(rows) ==
    \A i \in 1..(Len(rows) - 1) : rows[i].unique_wallets >= rows[i + 1].unique_wallets

\* the rows handed on as they came, the sort forgotten
sort_values_skipped(rows) == {rows}

\* df.sort_values('unique_wallets', ascending=False).reset_index(drop=True): the
\* orders of the rows the call can return. No kind is passed, so pandas sorts with
\* 'quicksort', which does not keep rows of equal unique_wallets in their order.
sort_values(rows) ==
    {sorted \in {[i \in 1..Len(rows) |-> rows[order[i]]] :
                    order \in Orderings(1..Len(rows))} : Descending(sorted)}

RECURSIVE SumWallets(_)
SumWallets(rows) ==
    IF rows = <<>> THEN 0 ELSE Head(rows).unique_wallets + SumWallets(Tail(rows))

\* the count of the first row taken for the total
top_wallets(rows) == rows[1].unique_wallets

\* total_wallets = df['unique_wallets'].sum()
total_wallets(rows) == SumWallets(rows)

\* the share cut off after its second decimal
PercentageTruncated(unique_wallets, total) == (unique_wallets * 10000) \div total

\* (unique_wallets / total_wallets * 100).round(2), in hundredths: the nearest
\* hundredth, the even one of the two when the share lies exactly between them
\* (numpy rounds half to even). The quotient is taken exactly: the shares that
\* the counts above put between two hundredths are exact in binary floating point.
Percentage(unique_wallets, total) ==
    LET scaled == unique_wallets * 10000
        q == scaled \div total
        r == scaled % total
    IN  IF 2 * r < total THEN q
        ELSE IF 2 * r > total THEN q + 1
        ELSE IF q % 2 = 0 THEN q ELSE q + 1

nft_collections ==
    <<<<"p","u","d","g","y">>, <<"m","o","o","n","b","i","r","d","s">>,
      <<"a","z","u","k","i">>, <<"b","a","y","c">>, <<"m","a","y","c">>,
      <<"d","o","o","d","l","e","s">>,
      <<"c","r","y","p","t","o","p","u","n","k","s">>,
      <<"m","e","e","b","i","t","s">>, <<"b","e","a","n","z">>,
      <<"b","a","k","c">>, <<"o","t","h","e","r","d","e","e","d">>,
      <<"y","u","g","a">>>>

defi_protocols ==
    <<<<"h","y","p","e","r","l","i","q","u","i","d">>, <<"a","a","v","e">>,
      <<"u","n","i","s","w","a","p">>, <<"c","o","m","p","o","u","n","d">>,
      <<"c","u","r","v","e">>, <<"b","a","l","a","n","c","e","r">>,
      <<"s","u","s","h","i","s","w","a","p">>, <<"d","y","d","x">>,
      <<"l","i","d","o">>, <<"r","o","c","k","e","t","p","o","o","l">>>>

AnyIn(keywords, text) == \E k \in DOMAIN keywords : Contains(keywords[k], text)

\* the two tests in the other order, DeFi tested first
categorize_defi_first(entity) ==
    LET entity_lower == lower(entity)
    IN  IF AnyIn(defi_protocols, entity_lower) THEN "DeFi"
        ELSE IF AnyIn(nft_collections, entity_lower) THEN "NFT"
        ELSE "Other"

\* categorize(entity), NFT tested first
categorize(entity) ==
    LET entity_lower == lower(entity)
    IN  IF AnyIn(nft_collections, entity_lower) THEN "NFT"
        ELSE IF AnyIn(defi_protocols, entity_lower) THEN "DeFi"
        ELSE "Other"

\* the columns percentage, rank and category added to the sorted rows
WithMetrics(sorted) ==
    LET total == total_wallets(sorted)
    IN  [i \in 1..Len(sorted) |->
            [entity |-> sorted[i].entity,
             unique_wallets |-> sorted[i].unique_wallets,
             percentage |-> IF total > 0
                            THEN Percentage(sorted[i].unique_wallets, total)
                            ELSE 0,
             rank |-> i,                              \* range(1, len(df) + 1)
             category |-> categorize(sorted[i].entity)]]

\* the frames calculate_metrics(df) can return
calculate_metrics(frame) ==
    IF IsEmptyFrame(frame) THEN {frame}
    ELSE {DataFrame(WithMetrics(sorted)) : sorted \in sort_values(frame.rows)}

InitMetrics ==
    /\ df \in InputFrames
    /\ metrics = Pending
    /\ balance_entry = NoEntry
    /\ spam_verdict = Pending
    /\ eth_response = NoResponse
    /\ eth_result = None
    /\ hype_price = Null
    /\ rpc_native = NoResponse
    /\ rpc_tokens = NoResponse
    /\ hl_result = None
    /\ price_response = NoResponse
    /\ hype_price_cache = EmptyCache
    /\ now = StartTime
    /\ requests = <<>>
    /\ pc = "start"
    /\ address = ""
    /\ merged = None
    /\ price_call = NoCall
    /\ scanner = "none"
    /\ sources = "up"
    /\ wallets = <<>>
    /\ future_to_wallet = <<>>
    /\ num_threads = 0
    /\ yield_first = {}
    /\ unyielded = <<>>
    /\ results = <<>>
    /\ summary = None
    /\ max_users = 0
    /\ all_users = <<>>
    /\ offset = 0
    /\ page_requests = <<>>
    /\ pages = <<>>
    /\ callers = <<>>
    /\ written_by = NoWriter

CalculateMetrics ==
    /\ pc = "start"
    /\ metrics' \in calculate_metrics(df)
    /\ pc' = "returned"
    /\ UNCHANGED <<balance_entry, spam_verdict, eth_response, eth_result, hype_price,
                   rpc_native, rpc_tokens, hl_result, price_response,
                   hype_price_cache, now, requests, address, merged, price_call,
                   scanner, sources, wallets, future_to_wallet, num_threads,
                   yield_first, unyielded, results, summary, df,
                   max_users, all_users, offset, page_requests, pages,
                   callers, written_by>>

NextMetrics == CalculateMetrics

SpecMetrics == InitMetrics /\ [][NextMetrics]_vars

---------------------------------------------------------------------------
(* get_entity_users: the users of a collection, fetched page by page.  The  *)
(* records of a page are not told apart: all_users is kept as the list of   *)
(* its runs, [page (the request that brought them), count], one for each    *)
(* all_users.extend(users).                                                 *)

limit == 200

MaxPages == 3

\* the max_users arguments: 0 for a call without a limit (None and 0 are both
\* falsy), the limit of a page, and limits below, between and at multiples of it
MaxUsersValues == {0, 1, 200, 250, 400}

\* the numbers of records the server puts on a page: none, fewer than asked,
\* as many as asked, and more (a server that ignores the limit)
PageSizes == {0, 1, 199, 200, 250}

PageResponse(outcome, status_code, json, count) ==
    [outcome |-> outcome, status_code |-> status_code, json |-> json, count |-> count]

\* what a page request can produce: a transport failure, an error status, a
\* body that is no JSON, and JSON bodies: a list of records, a dict holding the
\* records under 'users' or under 'data', a dict with other keys, a scalar
PageResponses ==
    {PageResponse("exception", 0, "invalid", 0),
     PageResponse("response", 500, "list", 0),
     PageResponse("response", 200, "invalid", 0),
     PageResponse("response", 200, "other_keys", 0),
     PageResponse("response", 200, "scalar", 0)}
    \cup {PageResponse("response", 200, json, n) :
              json \in {"list", "users", "data"}, n \in PageSizes}

\* requests.get raises, raise_for_status() raises, or response.json() raises
\* (requests' JSONDecodeError is a RequestException)
PageRaises(response) ==
    \/ response.outcome = "exception"
    \/ response.status_code >= 400
    \/ response.json = "invalid"

\* len(users) for the users taken from the body; [] for a dict without 'users'
\* and 'data' and for a body that is neither a list nor a dict
PageUsers(response) ==
    IF response.json \in {"list", "users", "data"} THEN response.count ELSE 0

RECURSIVE LenUsers(_)
LenUsers(runs) == IF runs = <<>> THEN 0 ELSE Head(runs).count + LenUsers(Tail(runs))

\* the test left out: the loop goes on whatever was gathered
ReachedMaxUsersNever(max, runs) == max < 0

\* if max_users and len(all_users) >= max_users
ReachedMaxUsers(max, runs) == max # 0 /\ LenUsers(runs) >= max

\* the handler going round the loop again: the same page is requested anew
AfterRequestExceptionRetry == "while"

\* except requests.RequestException: break
AfterRequestException == "returned"

\* the offset left as it is after a full page
NextOffsetSame(current) == current

\* offset += limit
NextOffset(current) == current + limit

InitUsers ==
    /\ max_users \in MaxUsersValues
    /\ all_users = <<>>
    /\ offset = 0
    /\ page_requests = <<>>
    /\ pages = <<>>
    /\ pc = "while"
    /\ balance_entry = NoEntry
    /\ spam_verdict = Pending
    /\ eth_response = NoResponse
    /\ eth_result = None
    /\ hype_price = Null
    /\ rpc_native = NoResponse
    /\ rpc_tokens = NoResponse
    /\ hl_result = None
    /\ price_response = NoResponse
    /\ hype_price_cache = EmptyCache
    /\ now = StartTime
    /\ requests = <<>>
    /\ address = ""
    /\ merged = None
    /\ price_call = NoCall
    /\ scanner = "none"
    /\ sources = "up"
    /\ wallets = <<>>
    /\ future_to_wallet = <<>>
    /\ num_threads = 0
    /\ yield_first = {}
    /\ unyielded = <<>>
    /\ results = <<>>
    /\ summary = None
    /\ df = None
    /\ metrics = Pending
    /\ callers = <<>>
    /\ written_by = NoWriter

other_vars == <<balance_entry, spam_verdict, eth_response, eth_result, hype_price,
                rpc_native, rpc_tokens, hl_result, price_response, hype_price_cache,
                now, requests, address, merged, price_call, scanner, sources,
                wallets, future_to_wallet, num_threads, yield_first, unyielded,
                results, summary, df, metrics>>

\* the loop is left at its head: enough users were gathered
BreakAtMaxUsers ==
    /\ pc = "while"
    /\ ReachedMaxUsers(max_users, all_users)
    /\ pc' = "returned"
    /\ UNCHANGED <<other_vars, max_users, all_users, offset, page_requests, pages,
                   callers, written_by>>

\* one round of the loop: the page at the offset is requested and handled
FetchPage ==
    /\ pc = "while"
    /\ ~ReachedMaxUsers(max_users, all_users)
    /\ Len(page_requests) < MaxPages
    /\ \E response \in PageResponses :
        /\ page_requests' = Append(page_requests, [limit |-> limit, offset |-> offset])
        /\ pages' = Append(pages, response)
        /\ IF PageRaises(response)
           THEN /\ pc' = AfterRequestException
                /\ UNCHANGED <<all_users, offset>>
           ELSE IF PageUsers(response) = 0                      \* if not users: break
           THEN /\ pc' = "returned"
                /\ UNCHANGED <<all_users, offset>>
           ELSE /\ all_users' = Append(all_users, [page |-> Len(page_requests) + 1,
                                                   count |-> PageUsers(response)])
                /\ IF PageUsers(response) < limit                \* a short page: break
                   THEN pc' = "returned" /\ UNCHANGED offset
                   ELSE pc' = "while" /\ offset' = NextOffset(offset)
    /\ UNCHANGED <<other_vars, max_users, callers, written_by>>

NextUsers == BreakAtMaxUsers \/ FetchPage

SpecUsers == InitUsers /\ [][NextUsers]_vars

\* the loop as the interpreter runs it: a round that can be taken is taken
SpecUsersFair == SpecUsers /\ WF_vars(NextUsers)

---------------------------------------------------------------------------
(* get_hype_price called by several worker threads at once.  No lock guards  *)
(* _hype_price_cache, and the interpreter can switch threads between any two *)
(* statements and between the reads of one expression: each read and each   *)
(* write of the cache is a step of its own.                                  *)

MaxCallers == 2

\* the position and the locals of a call: now, and price once it is read
Caller(at, t, price, result) == [pc |-> at, now |-> t, price |-> price, result |-> result]

NotCalled == Caller("call", 0, Null, Null)

\* what the price index answers the worker threads: no answer, and the prices
\* 0, 2 and 3
RacePriceResponses ==
    {r \in PriceResponses :
         \/ r.outcome = "exception"
         \/ r.status_code = 200 /\ r.json = "object" /\ r.usd \in {Num(0), Num(2), Num(3)}}

InitRace ==
    /\ callers = [c \in 1..MaxCallers |-> NotCalled]
    /\ written_by = NoWriter
    /\ hype_price_cache = EmptyCache
    /\ now = StartTime
    /\ pc = "start"
    /\ balance_entry = NoEntry
    /\ spam_verdict = Pending
    /\ eth_response = NoResponse
    /\ eth_result = None
    /\ hype_price = Null
    /\ rpc_native = NoResponse
    /\ rpc_tokens = NoResponse
    /\ hl_result = None
    /\ price_response = NoResponse
    /\ requests = <<>>
    /\ address = ""
    /\ merged = None
    /\ price_call = NoCall
    /\ scanner = "none"
    /\ sources = "up"
    /\ wallets = <<>>
    /\ future_to_wallet = <<>>
    /\ num_threads = 0
    /\ yield_first = {}
    /\ unyielded = <<>>
    /\ results = <<>>
    /\ summary = None
    /\ df = None
    /\ metrics = Pending
    /\ max_users = 0
    /\ all_users = <<>>
    /\ offset = 0
    /\ page_requests = <<>>
    /\ pages = <<>>

race_other_vars == <<balance_entry, spam_verdict, eth_response, eth_result, hype_price,
                     rpc_native, rpc_tokens, hl_result, price_response, now, requests,
                     pc, address, merged, price_call, scanner, sources, wallets,
                     future_to_wallet, num_threads, yield_first, unyielded, results,
                     summary, df, metrics, max_users, all_users, offset,
                     page_requests, pages>>

\* now = _time.time()
ReadClock(c) ==
    /\ callers[c].pc = "call"
    /\ callers' = [callers EXCEPT ![c] = Caller("if_price", now, Null, Null)]
    /\ UNCHANGED <<race_other_vars, hype_price_cache, written_by>>

\* if _hype_price_cache['price'] and ...: the price is read
ReadCachedPrice(c) ==
    /\ callers[c].pc = "if_price"
    /\ callers' = [callers EXCEPT ![c].pc = IF Truthy(hype_price_cache.price)
                                            THEN "if_timestamp" ELSE "get"]
    /\ UNCHANGED <<race_other_vars, hype_price_cache, written_by>>

\* ... and (now - _hype_price_cache['timestamp']) < 300: the timestamp is read
ReadCachedTimestamp(c) ==
    /\ callers[c].pc = "if_timestamp"
    /\ callers' = [callers EXCEPT ![c].pc =
                       IF callers[c].now - hype_price_cache.timestamp < CacheTtl
                       THEN "return_cached" ELSE "get"]
    /\ UNCHANGED <<race_other_vars, hype_price_cache, written_by>>

\* return _hype_price_cache['price']
ReturnCached(c) ==
    /\ callers[c].pc = "return_cached"
    /\ callers' = [callers EXCEPT ![c].pc = "returned",
                                  ![c].result = hype_price_cache.price]
    /\ UNCHANGED <<race_other_vars, hype_price_cache, written_by>>

\* the try block up to `if price > 0`, and the handler if it raises, which
\* reads the cache as it is then
FetchPrice(c) ==
    /\ callers[c].pc = "get"
    /\ \E response \in RacePriceResponses :
        \E body \in {PriceTryBody(hype_price_cache, callers[c].now, response)} :
            callers' = [callers EXCEPT ![c] =
                IF body.exc
                THEN Caller("returned", @.now, Null, OrZero(hype_price_cache.price))
                ELSE IF body.val.n > 0
                THEN Caller("write_price", @.now, body.val, Null)
                ELSE Caller("returned", @.now, body.val, body.val)]
    /\ UNCHANGED <<race_other_vars, hype_price_cache, written_by>>

\* _hype_price_cache['price'] = price
WritePrice(c) ==
    /\ callers[c].pc = "write_price"
    /\ hype_price_cache' = [hype_price_cache EXCEPT !.price = callers[c].price]
    /\ written_by' = [written_by EXCEPT !.price = c]
    /\ callers' = [callers EXCEPT ![c].pc = "write_timestamp"]
    /\ UNCHANGED race_other_vars

\* the time of the write stored instead of the time the call started
WriteTimestampClock(c) ==
    /\ callers[c].pc = "write_timestamp"
    /\ hype_price_cache' = [hype_price_cache EXCEPT !.timestamp = now]
    /\ written_by' = [written_by EXCEPT !.timestamp = c]
    /\ callers' = [callers EXCEPT ![c].pc = "returned", ![c].result = callers[c].price]
    /\ UNCHANGED race_other_vars

\* _hype_price_cache['timestamp'] = now; return price
WriteTimestamp(c) ==
    /\ callers[c].pc = "write_timestamp"
    /\ hype_price_cache' = [hype_price_cache EXCEPT !.timestamp = callers[c].now]
    /\ written_by' = [written_by EXCEPT !.timestamp = c]
    /\ callers' = [callers EXCEPT ![c].pc = "returned", ![c].result = callers[c].price]
    /\ UNCHANGED race_other_vars

NextRace ==
    \/ \E c \in 1..MaxCallers : ReadClock(c)
    \/ \E c \in 1..MaxCallers : ReadCachedPrice(c)
    \/ \E c \in 1..MaxCallers : ReadCachedTimestamp(c)
    \/ \E c \in 1..MaxCallers : ReturnCached(c)
    \/ \E c \in 1..MaxCallers : FetchPrice(c)
    \/ \E c \in 1..MaxCallers : WritePrice(c)
    \/ \E c \in 1..MaxCallers : WriteTimestamp(c)
    \/ Tick

SpecRace == InitRace /\ [][NextRace]_vars

---------------------------------------------------------------------------
(* Properties of get_wallet_balance_multi_chain (under Spec) *)

\* C1: whatever the two fetches did, the merged balance_usd is eth_balance_usd +
\* hl_balance_usd, each being its chain's balance_usd if that fetch reported
\* success and 0 if it did not.
MergedBalanceIsSumOfChains ==
    pc = "returned" =>
        /\ merged.balance_usd = Plus(merged.eth_balance_usd, merged.hl_balance_usd)
        /\ merged.eth_balance_usd =
               (IF eth_result.success THEN eth_result.balance_usd ELSE Zero)
        /\ merged.hl_balance_usd =
               (IF hl_result.success THEN hl_result.balance_usd ELSE Zero)

\* a call where both chains succeeded with money on each
BothChainsFundedWitness ==
    /\ pc = "returned"
    /\ eth_result.success /\ eth_result.balance_usd.usd > 0
    /\ hl_result.success /\ hl_result.balance_usd.atto > 0
    /\ merged.balance_usd = Money(eth_result.balance_usd.usd, hl_result.balance_usd.atto)

\* C2: the merged success flag is true exactly when at least one of the two chain
\* fetches returned success, and false exactly when both failed.
MergedSuccessIffOneChainSucceeded ==
    pc = "returned" => (merged.success <=> (eth_result.success \/ hl_result.success))

\* a call where Ethereum succeeded and Hyperliquid failed
OneChainSucceededWitness ==
    /\ pc = "returned"
    /\ eth_result.success /\ ~hl_result.success
    /\ merged.success

---------------------------------------------------------------------------
(* Properties of is_spam_token (under SpecSpam) *)

\* a token balance as the data source documents it: symbol and name are strings
\* (or missing), amount is a number, value_usd is a number or null
IsNumber(value) == value.t = "num" \/ (value.t = "str" /\ IsDigits(value.s))

IsTokenBalance(entry) ==
    /\ entry.symbol.t \in {"str", "absent"}
    /\ entry.name.t \in {"str", "absent"}
    /\ entry.amount.t = "absent" \/ IsNumber(entry.amount)
    /\ entry.value_usd.t \in {"absent", "null"} \/ IsNumber(entry.value_usd)

SymbolOf(entry) == IF entry.symbol.t = "str" THEN entry.symbol.s ELSE <<>>
NameOf(entry) == IF entry.name.t = "str" THEN entry.name.s ELSE <<>>
ValueUsdOf(entry) ==
    IF entry.value_usd.t \in {"absent", "null"} THEN 0 ELSE FloatValue(entry.value_usd)

Allowlisted(entry) == lower(SymbolOf(entry)) \in legitimate_tokens

HasPhishingPattern(entry) ==
    \E i \in DOMAIN spam_patterns :
        \/ Contains(spam_patterns[i], lower(SymbolOf(entry)))
        \/ Contains(spam_patterns[i], lower(NameOf(entry)))

\* C3: a token balance whose symbol is, case-insensitively, in the allowlist is
\* never spam, whatever its amount, value_usd and name.
AllowlistedIsNeverSpam ==
    (pc # "start" /\ IsTokenBalance(balance_entry) /\ Allowlisted(balance_entry))
        => spam_verdict = Returned(FALSE)

\* an allowlisted symbol in mixed case with a phishing name, a value above
\* 10,000 and an amount above 1e15, judged not spam
AllowlistedPhishingNameWitness ==
    /\ spam_verdict = Returned(FALSE)
    /\ SymbolOf(balance_entry) = <<"P","e","p","e">>
    /\ HasPhishingPattern(balance_entry)
    /\ ValueUsdOf(balance_entry) > 10000
    /\ FloatGt1e15(balance_entry.amount)

PhishingPatternIsSpam ==
    (pc # "start" /\ IsTokenBalance(balance_entry) /\ ~Allowlisted(balance_entry)
        /\ HasPhishingPattern(balance_entry))
        => spam_verdict = Returned(TRUE)

\* a token whose name alone, in mixed case, carries a pattern and whose value is
\* low, judged spam
PhishingNameWitness ==
    /\ spam_verdict = Returned(TRUE)
    /\ SymbolOf(balance_entry) = <<"F","O","O">>
    /\ NameOf(balance_entry) = <<"V","i","s","i","t"," ","x",".","C","O","M">>
    /\ ValueUsdOf(balance_entry) = 0

\* C6: a token balance outside the allowlist, without a phishing pattern and with
\* value_usd at most 10000 is not spam, also when its amount is above 1e15.
OtherwiseNotSpam ==
    (pc # "start" /\ IsTokenBalance(balance_entry) /\ ~Allowlisted(balance_entry)
        /\ ~HasPhishingPattern(balance_entry) /\ ValueUsdOf(balance_entry) <= 10000)
        => spam_verdict = Returned(FALSE)

\* a token with an amount above 1e15 and a value of exactly 10,000, judged not spam
LargeAmountNotSpamWitness ==
    /\ spam_verdict = Returned(FALSE)
    /\ ~Allowlisted(balance_entry)
    /\ FloatGt1e15(balance_entry.amount)
    /\ ValueUsdOf(balance_entry) = 10000

---------------------------------------------------------------------------
(* Properties of get_wallet_balance (under SpecEth) *)

Holding(i) == eth_response.balances.items[i]
HoldingIndexes == DOMAIN eth_response.balances.items

\* processing the body of the answer raises: it is no JSON object, its balances
\* are null, or one of its holdings is no token balance
ProcessingRaises ==
    \/ eth_response.json # "object"
    \/ eth_response.balances.t = "null"
    \/ \E i \in HoldingIndexes : ~IsTokenBalance(Holding(i))

\* the holdings of the answer that is_spam_token judges not spam
NonSpamIndexes == {i \in HoldingIndexes : is_spam_token(Holding(i)) = Ok(FALSE)}

RECURSIVE SumValueUsdAt(_)
SumValueUsdAt(indexes) ==
    IF indexes = {} THEN 0
    ELSE LET i == CHOOSE j \in indexes : TRUE
         IN  ValueUsdOf(Holding(i)) + SumValueUsdAt(indexes \ {i})

\* C7: on a non-200 status, and on any exception of the request or of the
\* processing of its answer, get_wallet_balance returns success=false with
\* balance_usd=0 for chain 'ethereum' and raises nothing.
EthFailureIsSwallowed ==
    (pc # "start"
        /\ \/ eth_response.outcome = "exception"
           \/ eth_response.status_code # 200
           \/ ProcessingRaises)
        => /\ pc = "returned"
           /\ eth_result.success = FALSE
           /\ eth_result.balance_usd = Zero
           /\ eth_result.chain = "ethereum"

\* a 200 answer one of whose holdings makes the classifier raise, returned as a failure
EthProcessingExceptionWitness ==
    /\ pc = "returned"
    /\ eth_response.outcome = "response" /\ eth_response.status_code = 200
    /\ eth_response.json = "object"
    /\ \E i \in HoldingIndexes : is_spam_token(Holding(i)).exc
    /\ eth_result.success = FALSE

\* C8 as stated: on a 200 answer get_wallet_balance returns success=true with
\* balance_usd the sum of value_usd over the non-spam holdings and token_count
\* their number.
Eth200AlwaysSucceeds ==
    (pc # "start" /\ eth_response.outcome = "response" /\ eth_response.status_code = 200)
        => /\ pc = "returned"
           /\ eth_result.success
           /\ eth_result.balance_usd = Money(SumValueUsdAt(NonSpamIndexes), 0)
           /\ eth_result.token_count = Cardinality(NonSpamIndexes)

\* C8, amended: on a 200 answer whose body is processed without an exception,
\* get_wallet_balance returns success=true with balance_usd the sum of value_usd
\* (null counting as 0) over exactly the holdings is_spam_token judges not spam,
\* and token_count their number.
Eth200SumsNonSpamHoldings ==
    (pc # "start" /\ eth_response.outcome = "response" /\ eth_response.status_code = 200
        /\ ~ProcessingRaises)
        => /\ pc = "returned"
           /\ eth_result.success
           /\ eth_result.balance_usd = Money(SumValueUsdAt(NonSpamIndexes), 0)
           /\ eth_result.token_count = Cardinality(NonSpamIndexes)

\* a 200 answer with a spam holding and a non-spam holding, both with a value
EthMixedHoldingsWitness ==
    /\ pc = "returned"
    /\ eth_response.status_code = 200
    /\ eth_result.success
    /\ \E i, j \in HoldingIndexes :
        /\ is_spam_token(Holding(i)) = Ok(TRUE) /\ ValueUsdOf(Holding(i)) > 0
        /\ is_spam_token(Holding(j)) = Ok(FALSE) /\ ValueUsdOf(Holding(j)) > 0
    /\ eth_result.token_count = 1
    /\ eth_result.balance_usd.usd > 0

---------------------------------------------------------------------------
(* Properties of get_hl_wallet_balance (under SpecHl) *)

\* C9 as stated: with a falsy price argument (zero or any other falsy value) the
\* function returns success=false, balance_usd=0 and attempts no network call.
FalsyPriceFailsWithoutNetwork ==
    (pc = "returned" /\ ~Truthy(hype_price))
        => /\ hl_result.success = FALSE
           /\ hl_result.balance_usd = Zero
           /\ requests = <<>>

\* C9, amended: with a price argument that is falsy and not None (zero) the
\* function returns success=false, balance_usd=0 and attempts no network call;
\* None is not taken as unavailable: the price is then asked of get_hype_price
\* and at least one network call is attempted.
ZeroPriceFailsWithoutNetwork ==
    pc = "returned" =>
        /\ (~Truthy(hype_price) /\ hype_price.t # "null")
               => /\ hl_result.success = FALSE
                  /\ hl_result.balance_usd = Zero
                  /\ requests = <<>>
        /\ hype_price.t = "null" => requests # <<>>

\* a call handed the price 0
ZeroPriceWitness ==
    /\ pc = "returned"
    /\ hype_price = Num(0)
    /\ hl_result.success = FALSE
    /\ requests = <<>>

\* the answer parsed without an exception
NativeAnswered ==
    /\ rpc_native.outcome = "response" /\ rpc_native.status_code = 200
    /\ rpc_native.json = "object"
    /\ ~HexToInt(Get(rpc_native.result, Str(<<"0","x","0">>))).exc

TokenEntries ==
    IF rpc_tokens.outcome = "response" /\ rpc_tokens.tokenBalances.t = "list"
    THEN rpc_tokens.tokenBalances.items ELSE <<>>

TokensAnswered ==
    /\ rpc_tokens.outcome = "response" /\ rpc_tokens.status_code = 200
    /\ rpc_tokens.json = "object"
    /\ rpc_tokens.result.t # "null" /\ rpc_tokens.tokenBalances.t # "null"
    /\ \A i \in DOMAIN TokenEntries :
        /\ TokenEntries[i].contractAddress.t = "str"
        /\ ~HexToInt(TokenEntries[i].tokenBalance).exc

NativeBalance == HexToInt(Get(rpc_native.result, Str(<<"0","x","0">>))).val
TokenAmount(i) == HexToInt(TokenEntries[i].tokenBalance).val
PositiveTokens == {i \in DOMAIN TokenEntries : TokenAmount(i) > 0}

\* the contract addresses config.py lists as pegged to HYPE
PeggedContracts == {c \in DOMAIN HL_VERIFIED_TOKENS : HL_VERIFIED_TOKENS[c] = "hype"}
Pegged(i) == lower(TokenEntries[i].contractAddress.s) \in PeggedContracts

RECURSIVE SumTokenAmountAt(_)
SumTokenAmountAt(indexes) ==
    IF indexes = {} THEN 0
    ELSE LET i == CHOOSE j \in indexes : TRUE
         IN  TokenAmount(i) + SumTokenAmountAt(indexes \ {i})

\* C10: when both RPC calls succeed and the token list holds a token with a
\* positive balance whose contract is not in the pegged allowlist, the function
\* returns success=true, counts that token in token_count and adds nothing for
\* it to balance_usd: only allowlisted contracts are valued, at balance times price.
UnlistedTokenCountedNotValued ==
    (pc = "returned" /\ hype_price.t = "num" /\ hype_price.n > 0
        /\ NativeAnswered /\ TokensAnswered
        /\ \E i \in PositiveTokens : ~Pegged(i))
        => /\ hl_result.success
           /\ hl_result.token_count =
                  Cardinality(PositiveTokens) + (IF NativeBalance > 0 THEN 1 ELSE 0)
           /\ hl_result.balance_usd =
                  Money(0, hype_price.n *
                      ((IF NativeBalance > 0 THEN NativeBalance ELSE 0)
                       + SumTokenAmountAt({i \in PositiveTokens : Pegged(i)})))

\* processing the token entry raises: its contractAddress has no lower(), its
\* tokenBalance is no hexadecimal number, or its balance is positive and the
\* lookup of config.HL_HYPE_TOKENS raises
EntryRaises(tb) ==
    LET raw_balance == Get(tb.tokenBalance, Str(<<"0","x","0">>))
    IN  \/ Get(tb.contractAddress, Str(<<>>)).t # "str"
        \/ /\ raw_balance \notin {Str(<<"0","x","0">>), Str(<<"0","x">>)}
           /\ \/ HexToInt(raw_balance).exc
              \/ HexToInt(raw_balance).val > 0 /\ "HL_HYPE_TOKENS" \notin DOMAIN config

\* the eth_getBalance call raised, or its result is no hexadecimal number
NativeCallRaised == rpc_native # NoResponse /\ ~NativeAnswered

\* the alchemy_getTokenBalances call was made and raised, or the processing of
\* its result did
TokenCallRaised ==
    /\ rpc_tokens # NoResponse
    /\ \/ RpcRaises(rpc_tokens)
       \/ rpc_tokens.result.t = "null"
       \/ rpc_tokens.tokenBalances.t = "null"
       \/ \E i \in DOMAIN TokenEntries : EntryRaises(TokenEntries[i])

\* C11: when an exception occurs during either Hyperliquid RPC call or while its
\* result is processed, get_hl_wallet_balance returns success=false with
\* balance_usd=0 and none of the totals accumulated before the exception.
HlExceptionDiscardsTotals ==
    (pc = "returned" /\ (NativeCallRaised \/ TokenCallRaised))
        => hl_result = HlFailure(address)

\* a call that had counted a positive native balance when the processing of the
\* token balances raised
HlPartialTotalDiscardedWitness ==
    /\ pc = "returned"
    /\ NativeAnswered /\ NativeBalance > 0
    /\ rpc_tokens # NoResponse /\ ~RpcRaises(rpc_tokens)
    /\ \E i \in DOMAIN TokenEntries : EntryRaises(TokenEntries[i])
    /\ hl_result.success = FALSE
    /\ hl_result.balance_usd = Zero

---------------------------------------------------------------------------
(* Properties of get_hype_price (under SpecPrice) *)

\* C12: after a call that fetched a price above 0 at time t, a later call less
\* than 300 seconds after t returns that very price and issues no request, and
\* a call 300 seconds or more after t issues a refresh request (t being the
\* time of the latest such fetch before the call).
CachedPriceServedFor300s ==
    (price_call.called /\ price_call.before.fetched)
        => IF price_call.at - price_call.before.time < 300
           THEN hype_price = price_call.before.price /\ requests = <<>>
           ELSE requests = <<"coingecko">>

\* a call 150 seconds after the fetch of a price, served from the cache
CacheHitWitness ==
    /\ price_call.called /\ price_call.before.fetched
    /\ price_call.at - price_call.before.time > 0
    /\ price_call.at - price_call.before.time < 300
    /\ hype_price = price_call.before.price
    /\ requests = <<>>

\* a call exactly 300 seconds after the fetch of a price, which asks again
CacheExpiredWitness ==
    /\ price_call.called /\ price_call.before.fetched
    /\ price_call.at - price_call.before.time = 300
    /\ requests = <<"coingecko">>

\* the latest call missed the cache and its fetch failed (no answer, an error
\* status, a body that is no JSON object, a price that is no number) or yielded
\* the price 0 (also when the answer names no price)
FetchFailedOrZero ==
    /\ price_call.called
    /\ requests = <<"coingecko">>
    /\ \/ price_response.outcome = "exception"
       \/ price_response.status_code >= 400
       \/ price_response.json # "object"
       \/ price_response.usd.t # "num"
       \/ price_response.usd.n = 0

\* the cache as the fetches before the latest call left it
CacheBeforeCall ==
    IF price_call.before.fetched
    THEN [price |-> price_call.before.price, timestamp |-> price_call.before.time]
    ELSE EmptyCache

\* C13: on a cache miss whose fetch fails or yields a zero price, get_hype_price
\* returns the previously cached price, stale or not, or 0 if the cache was never
\* populated, and leaves the cache unchanged.
FailedFetchReturnsCachedPrice ==
    FetchFailedOrZero
        => /\ hype_price = (IF price_call.before.fetched
                            THEN price_call.before.price ELSE Num(0))
           /\ hype_price_cache = CacheBeforeCall

---------------------------------------------------------------------------
(* Properties of the wallet scans (under SpecPool and SpecScan) *)

Running == InState(future_to_wallet, "running")

\* C14: during a wallet scan, at every instant at most 5 per-wallet fetch tasks
\* are executing, however the threads interleave.
AtMostFiveTasksRunning == Cardinality(Running) <= 5

\* five tasks executing while a sixth waits in the queue
PoolSaturatedWitness ==
    /\ Cardinality(Running) = 5
    /\ InState(future_to_wallet, "pending") # {}

\* the scan ended with a summary
Summarised == pc = "done" /\ summary # None

Succeeded == {i \in DOMAIN results : results[i].success}

RECURSIVE SumBalanceUsdAt(_)
SumBalanceUsdAt(indexes) ==
    IF indexes = {} THEN Zero
    ELSE LET i == CHOOSE j \in indexes : TRUE
         IN  Plus(results[i].balance_usd, SumBalanceUsdAt(indexes \ {i}))

\* C15: in the summary of a wallet scan, of fetch_all_wallet_balances and of
\* refresh_data, avg_value_usd is total_value_usd divided by the number of
\* results flagged success, not by the number of results, and 0 when no result
\* is flagged success.
AvgIsTotalOverSuccessful ==
    Summarised =>
        summary.avg_value_usd =
            (IF Succeeded = {} THEN Quotient(Zero, 1)
             ELSE Quotient(summary.total_value_usd, Cardinality(Succeeded)))

\* C16: in the summary of a wallet scan total_value_usd is the sum of
\* balance_usd over all collected results, a result with success=false adds 0
\* to it, and when every fetch failed the total is 0 and no wallet is counted
\* successful.
TotalIsSumOfAllResults ==
    Summarised =>
        /\ summary.wallet_balances = results
        /\ summary.total_value_usd = SumBalanceUsdAt(DOMAIN results)
        /\ \A i \in DOMAIN results : ~results[i].success => results[i].balance_usd = Zero
        /\ Succeeded = {} =>
               /\ summary.total_value_usd = Zero
               /\ "wallets_successful" \in DOMAIN summary => summary.wallets_successful = 0

\* a summary over a failed result and a successful one that holds money
MixedResultsSummedWitness ==
    /\ Summarised
    /\ \E i, j \in DOMAIN results :
        /\ ~results[i].success
        /\ results[j].success /\ results[j].balance_usd # Zero
    /\ summary.total_value_usd # Zero

\* the wallets are unique, each has one task, and each has one result
OneResultPerWallet ==
    /\ \A i, j \in DOMAIN wallets : wallets[i] = wallets[j] => i = j
    /\ Len(future_to_wallet) = Len(wallets)
    /\ \A i \in DOMAIN wallets : future_to_wallet[i].wallet = wallets[i]
    /\ Len(results) = Len(wallets)
    /\ \A i \in DOMAIN wallets :
        Cardinality({j \in DOMAIN results : results[j].address = wallets[i]}) = 1

\* wallets_scanned is the number of results and wallets_successful is no more
ScanCounts ==
    "wallets_scanned" \in DOMAIN summary =>
        /\ summary.wallets_scanned = Len(results)
        /\ summary.wallets_successful <= summary.wallets_scanned

\* C17 as stated: a scan submits one task per unique address and ends with one
\* result per unique address, appended in the order the tasks completed;
\* wallets_scanned is the number of results and wallets_successful is no more.
ResultsInCompletionOrder ==
    [][/\ results' # results =>
              results' = Append(results, future_to_wallet[Head(unyielded)].result)
       /\ Summarised' => (OneResultPerWallet' /\ ScanCounts')]_vars

\* C17, amended: a scan submits one task per unique address and ends with one
\* result per unique address, appended in the order as_completed yields them:
\* first the results of the tasks found finished when as_completed was called,
\* in any order, then the others in the order their tasks completed;
\* wallets_scanned is the number of results and wallets_successful is no more.
ResultsInYieldOrder ==
    [][/\ results' # results =>
              \E i \in (IF yield_first # {} THEN yield_first
                        ELSE {Head(SelectSeq(unyielded, LAMBDA j : j \notin yield_first))}) :
                  results' = Append(results, future_to_wallet[i].result)
       /\ Summarised' => (OneResultPerWallet' /\ ScanCounts')]_vars

\* a scan of two wallets whose results are not in the order of the list
ResultsNotInInputOrderWitness ==
    /\ Summarised
    /\ Len(wallets) = 2
    /\ OneResultPerWallet
    /\ results[1].address = wallets[2]
    /\ results[2].address = wallets[1]

---------------------------------------------------------------------------
(* Properties of calculate_metrics (under SpecMetrics) *)

\* calculate_metrics has returned from a call with a frame that has rows
MetricsOfRows == pc = "returned" /\ df # None /\ df.rows # <<>> /\ metrics # Pending

\* the index of the row of an entity in the frame handed in
InputPosition(entity) == CHOOSE k \in DOMAIN df.rows : df.rows[k].entity = entity

\* the rows returned are the rows handed in, each once
SameRowsAsInput ==
    /\ Len(metrics.rows) = Len(df.rows)
    /\ \A k \in DOMAIN df.rows : \E i \in DOMAIN metrics.rows :
          /\ metrics.rows[i].entity = df.rows[k].entity
          /\ metrics.rows[i].unique_wallets = df.rows[k].unique_wallets

DescendingByWallets ==
    \A i, j \in DOMAIN metrics.rows :
        i < j => metrics.rows[i].unique_wallets >= metrics.rows[j].unique_wallets

TiesInInputOrder ==
    \A i, j \in DOMAIN metrics.rows :
        (i < j /\ metrics.rows[i].unique_wallets = metrics.rows[j].unique_wallets)
            => InputPosition(metrics.rows[i].entity) < InputPosition(metrics.rows[j].entity)

RanksOneToN == \A i \in DOMAIN metrics.rows : metrics.rows[i].rank = i

InputTotal == SumWallets(df.rows)

\* C19: for a frame with rows, each row's percentage is its unique_wallets
\* divided by the sum of unique_wallets over all rows, times 100, rounded to 2
\* decimals: it is a whole number of hundredths at most half a hundredth away
\* from the exact share. When the sum is 0 every percentage is 0.0 (and the
\* call returns: nothing is divided by zero).
PercentageIsRoundedShare ==
    MetricsOfRows =>
        /\ Len(metrics.rows) = Len(df.rows)
        /\ \A i \in DOMAIN metrics.rows :
              IF InputTotal = 0
              THEN metrics.rows[i].percentage = 0
              ELSE 2 * Abs(metrics.rows[i].percentage * InputTotal
                           - 10000 * metrics.rows[i].unique_wallets) <= InputTotal

\* a share that is not a whole number of hundredths (1 of 3) has been rounded
RoundedShareWitness ==
    /\ MetricsOfRows
    /\ InputTotal > 0
    /\ \E i \in DOMAIN metrics.rows :
          /\ (10000 * metrics.rows[i].unique_wallets) % InputTotal # 0
          /\ metrics.rows[i].percentage > 0

RECURSIVE SumPercentages(_)
SumPercentages(rows) ==
    IF rows = <<>> THEN 0 ELSE Head(rows).percentage + SumPercentages(Tail(rows))

\* the percentages of the pass sum to 100 up to the rounding error, half a
\* hundredth for each row
SumsTo100 == 2 * Abs(SumPercentages(metrics.rows) - 10000) <= Len(metrics.rows)

\* C20 as stated: after every pass of calculate_metrics the percentages of its
\* rows sum to 100, up to the error of the rounding to 2 decimals.
PercentagesSumTo100 == MetricsOfRows => SumsTo100

\* C20, amended: after every pass of calculate_metrics over rows whose
\* unique_wallets sum is above 0 the percentages of its rows sum to 100, up to
\* the error of the rounding to 2 decimals; when the sum is 0 they sum to 0.
PercentagesSumTo100UnlessAllZero ==
    MetricsOfRows =>
        IF \E k \in DOMAIN df.rows : df.rows[k].unique_wallets > 0
        THEN SumsTo100
        ELSE SumPercentages(metrics.rows) = 0

\* three rows of the same count: 33.33 each, 99.99 together
PercentagesSumBelow100Witness ==
    /\ MetricsOfRows
    /\ \E k \in DOMAIN df.rows : df.rows[k].unique_wallets > 0
    /\ SumPercentages(metrics.rows) # 10000

\* a pass over rows that all count 0 wallets: every percentage 0.0
AllZeroPassWitness ==
    /\ MetricsOfRows
    /\ InputTotal = 0
    /\ SumPercentages(metrics.rows) = 0

\* the lower-cased name of the entity of a row returned holds a keyword of the list
HoldsKeyword(row, keywords) ==
    \E k \in DOMAIN keywords : Contains(keywords[k], lower(row.entity))

\* C21: every row returned has category 'NFT' if its lower-cased entity name
\* holds an NFT keyword (whether or not it holds a DeFi keyword too), 'DeFi' if
\* it holds a DeFi keyword and no NFT keyword, and 'Other' if it holds neither.
CategoryByKeywordNftFirst ==
    MetricsOfRows =>
        \A i \in DOMAIN metrics.rows :
            LET row == metrics.rows[i]
            IN  /\ HoldsKeyword(row, nft_collections) => row.category = "NFT"
                /\ (HoldsKeyword(row, defi_protocols) /\ ~HoldsKeyword(row, nft_collections))
                      => row.category = "DeFi"
                /\ (~HoldsKeyword(row, defi_protocols) /\ ~HoldsKeyword(row, nft_collections))
                      => row.category = "Other"

\* a frame whose rows show the three categories, the NFT one for a name that
\* holds a keyword of both lists and needs lower-casing ("PudgyLido")
AllCategoriesWitness ==
    /\ MetricsOfRows
    /\ \E i \in DOMAIN metrics.rows :
          /\ HoldsKeyword(metrics.rows[i], nft_collections)
          /\ HoldsKeyword(metrics.rows[i], defi_protocols)
          /\ ~Contains(<<"p","u","d","g","y">>, metrics.rows[i].entity)
          /\ metrics.rows[i].category = "NFT"
    /\ \E i \in DOMAIN metrics.rows : metrics.rows[i].category = "DeFi"
    /\ \E i \in DOMAIN metrics.rows : metrics.rows[i].category = "Other"

---------------------------------------------------------------------------
(* More properties of get_wallet_balance_multi_chain (under Spec) *)

\* usd + atto / 1e18 >= 0, for whole dollars and less than 1e18 atto
NonNegative(money) == money.usd > 0 \/ (money.usd = 0 /\ money.atto >= 0)

\* C22: in every result get_wallet_balance_multi_chain returns, balance_usd,
\* eth_balance_usd and hl_balance_usd are all greater than or equal to 0,
\* whatever the data sources answered.
MergedBalancesNonNegative ==
    pc = "returned" =>
        /\ NonNegative(merged.balance_usd)
        /\ NonNegative(merged.eth_balance_usd)
        /\ NonNegative(merged.hl_balance_usd)

\* C23: no exception leaves get_hype_price, get_wallet_balance,
\* get_hl_wallet_balance or get_wallet_balance_multi_chain, whatever status,
\* body or transport failure the requests met: each call of the chain hands a
\* value back, and the merged dict is returned.
NoFetchRaises ==
    /\ pc # "raised"
    /\ pc \in {"get_hl_wallet_balance", "returned"} => eth_result # None
    /\ pc = "returned" => (hl_result # None /\ merged # None)

\* a call in which the price request failed in transport and neither chain
\* could be fetched: a dict with success=false and no balance came back
AllSourcesFailedWitness ==
    /\ pc = "returned"
    /\ price_response.outcome = "exception"
    /\ eth_result.success = FALSE
    /\ hl_result.success = FALSE
    /\ merged.success = FALSE
    /\ merged.balance_usd = Zero

\* C23, for the scans (under SpecScan): no task of a wallet scan ends with an
\* exception, no exception leaves the scan, and a scan that found wallets ends
\* with a summary over one result for each of them.
NoTaskRaises ==
    /\ pc # "raised"
    /\ \A i \in DOMAIN future_to_wallet : future_to_wallet[i].result # TaskRaised
    /\ (pc = "done" /\ wallets # <<>>)
           => (summary # None /\ Len(results) = Len(wallets))

\* a scan of two wallets whose first result is a failed fetch and whose second
\* is a successful one: the failure did not end the aggregation
ScanWentOnAfterFailureWitness ==
    /\ pc = "done"
    /\ summary # None
    /\ Len(results) = 2
    /\ results[1].success = FALSE
    /\ results[2].success = TRUE

---------------------------------------------------------------------------
(* Properties of get_entity_users (under SpecUsers) *)

\* the runs of records the pages received so far hold, in request order
RECURSIVE RunsOfPages(_, _)
RunsOfPages(received, k) ==
    IF k > Len(received) THEN <<>>
    ELSE IF ~PageRaises(received[k]) /\ PageUsers(received[k]) > 0
    THEN <<[page |-> k, count |-> PageUsers(received[k])]>> \o RunsOfPages(received, k + 1)
    ELSE RunsOfPages(received, k + 1)

\* a page that ends the data: it holds no records, or fewer than the limit
EndsData(response) == PageRaises(response) \/ PageUsers(response) < limit

\* C24: get_entity_users requests the pages with limit 200 at the offsets 0,
\* 200, 400, ... in that order; every page received before the last one was a
\* full one, so that no request follows the first empty or short page; and
\* all_users is the concatenation, in request order, of the records of all the
\* pages received, that page included.
PagesInOrderUntilShortPage ==
    /\ \A i \in DOMAIN page_requests :
           page_requests[i] = [limit |-> 200, offset |-> 200 * (i - 1)]
    /\ Len(pages) = Len(page_requests)
    /\ \A i \in DOMAIN pages : i < Len(pages) => ~EndsData(pages[i])
    /\ all_users = RunsOfPages(pages, 1)
    /\ (pc = "while" /\ pages # <<>>) => ~EndsData(pages[Len(pages)])

\* a call without a limit that asked for the offsets 0, 200 and 400, got two
\* full pages and then a short one, and returned the records of all three
ThirdPageShortWitness ==
    /\ pc = "returned"
    /\ max_users = 0
    /\ Len(page_requests) = 3
    /\ page_requests[3].offset = 400
    /\ PageUsers(pages[1]) = 200 /\ PageUsers(pages[2]) = 200
    /\ PageUsers(pages[3]) = 199
    /\ LenUsers(all_users) = 599

Issued(request) == Cardinality({i \in DOMAIN requests : requests[i] = request})

\* C25, for one call of get_wallet_balance_multi_chain (under Spec): no request
\* is issued twice, and a call that returned asked for the Ethereum balances
\* once and for the Hyperliquid balances at most once, whatever failed.
NoRequestIssuedTwice ==
    /\ \A i, j \in DOMAIN requests : i # j => requests[i] # requests[j]
    /\ pc = "returned" =>
           /\ Issued("balances") = 1
           /\ Issued("eth_getBalance") <= 1
           /\ eth_result # None /\ hl_result # None

\* C25, for the scans (under SpecScan): the wallets of a scan are distinct, each
\* has one task, and a task that has finished, failed or not, is not run again.
EachTaskRunsOnce ==
    [][/\ \A i, j \in DOMAIN future_to_wallet :
              i # j => future_to_wallet[i].wallet # future_to_wallet[j].wallet
       /\ Len(future_to_wallet') <= Len(wallets)
       /\ \A i \in DOMAIN future_to_wallet :
              /\ future_to_wallet[i].state = "finished"
                     => future_to_wallet'[i] = future_to_wallet[i]
              /\ future_to_wallet[i].state = "running"
                     => future_to_wallet'[i].state \in {"running", "finished"}]_vars

\* C26: a call with a positive max_users, answered with pages of no more
\* records than the limit asked for, returns at most max_users records.
ReturnsAtMostMaxUsers ==
    (/\ pc = "returned"
     /\ max_users > 0
     /\ \A i \in DOMAIN pages : PageUsers(pages[i]) <= limit)
        => LenUsers(all_users) <= max_users

\* ceil(max / limit)
PageBudget(max) == (max + limit - 1) \div limit

\* C28 (under SpecUsersFair): a call with a positive max_users issues at most
\* ceil(max_users / 200) page requests and returns, whatever the server
\* answers, full pages on every request included.
TerminatesWithinPageBudget ==
    /\ [](max_users > 0 => Len(page_requests) <= PageBudget(max_users))
    /\ (max_users > 0) ~> (pc = "returned")

\* a call with max_users = 400 that was answered with a full page of 200
\* records on both requests and returned, at the head of the loop, 400 users
FullPagesUntilMaxUsersWitness ==
    /\ pc = "returned"
    /\ max_users = 400
    /\ Len(page_requests) = 2
    /\ pages[1] = pages[2]
    /\ PageUsers(pages[2]) = 200
    /\ LenUsers(all_users) = 400

---------------------------------------------------------------------------
(* Properties of _hype_price_cache (under SpecPrice) *)

\* the latest call missed the cache and its fetch failed or yielded a price
\* that is not above 0
FetchFailedOrNotPositive ==
    /\ price_call.called
    /\ requests = <<"coingecko">>
    /\ ~FetchedPrice(requests, price_response)

\* C29: after any sequence of calls of get_hype_price the cached price is None
\* or a price above 0 that a fetch returned; a fetch that failed or yielded a
\* price of 0 or below left the cache as it was; and a call served from the
\* cache returned a price above 0.
CachedPriceIsFetchedAndPositive ==
    /\ \/ hype_price_cache = EmptyCache
       \/ /\ hype_price_cache.price.t = "num"
          /\ hype_price_cache.price.n > 0
          /\ price_call.last.fetched
          /\ hype_price_cache.price = price_call.last.price
    /\ FetchFailedOrNotPositive => hype_price_cache = CacheBeforeCall
    /\ (price_call.called /\ requests = <<>>)
           => (hype_price.t = "num" /\ hype_price.n > 0)

\* a call whose fetch yielded a negative price while the cache held the price
\* fetched 300 seconds before: the call returned the negative price and the
\* cache kept the older one
NegativePriceNotCachedWitness ==
    /\ price_call.called
    /\ price_call.before.fetched
    /\ requests = <<"coingecko">>
    /\ price_response.outcome = "response"
    /\ price_response.usd = Num(-1)
    /\ hype_price = Num(-1)
    /\ hype_price_cache = [price |-> price_call.before.price,
                           timestamp |-> price_call.before.time]

---------------------------------------------------------------------------
(* Properties of concurrent calls of get_hype_price (under SpecRace) *)

AllReturned == \A c \in DOMAIN callers : callers[c].pc = "returned"

\* C27: when several worker threads call get_hype_price at once and more than
\* one of them refreshes the cache, the cache never holds the price one call
\* wrote beside the timestamp another call wrote, and once all calls returned
\* it holds the price and the time of the call that wrote last.
CachePairWrittenByOneCall ==
    /\ (written_by.price # 0 /\ written_by.timestamp # 0)
           => written_by.price = written_by.timestamp
    /\ (AllReturned /\ written_by.timestamp # 0)
           => hype_price_cache = [price |-> callers[written_by.timestamp].price,
                                  timestamp |-> callers[written_by.timestamp].now]

\* all calls returned and the cache holds the price 3 one call fetched beside
\* the time of the other call, which fetched the price 2
TornPairAfterAllCalls ==
    /\ AllReturned
    /\ written_by.price # written_by.timestamp
    /\ written_by.price # 0 /\ written_by.timestamp # 0
    /\ callers[written_by.price].price = Num(3)
    /\ callers[written_by.timestamp].price = Num(2)
    /\ callers[written_by.price].now # callers[written_by.timestamp].now
    /\ hype_price_cache = [price |-> Num(3),
                           timestamp |-> callers[written_by.timestamp].now]

\* C27, amended: each entry of the cache holds what the call that wrote it last
\* stored, the price above 0 that call fetched and the time that call started,
\* and an entry no call wrote is as the module set it; the price and the
\* timestamp need not come from the same call.
CacheEntriesHoldLastWrites ==
    /\ IF written_by.price = 0
       THEN hype_price_cache.price = Null
       ELSE /\ hype_price_cache.price = callers[written_by.price].price
            /\ hype_price_cache.price.n > 0
            /\ callers[written_by.price].pc \in {"write_timestamp", "returned"}
    /\ IF written_by.timestamp = 0
       THEN hype_price_cache.timestamp = 0
       ELSE /\ hype_price_cache.timestamp = callers[written_by.timestamp].now
            /\ callers[written_by.timestamp].pc = "returned"
            /\ callers[written_by.timestamp].result = callers[written_by.timestamp].price

===========================================================================
